---------------------------- MODULE Spec2Model ----------------------------
(***************************************************************************)
(* WordWeave backend: the theme-analysis handler (theme_analyzer.py) and   *)
(* the poem-generation handler (lambda_function.py).                       *)
(*                                                                         *)
(* Numbers are fixed-point with two decimals: the integer n stands for     *)
(* n / 100, so 0.05 is 5, 1.5 is 150, 450 is 45000 and 360 is 36000.        *)
(* A Python dict is a function whose DOMAIN is its set of keys; a Python   *)
(* list is a sequence.  A call either returns a value or raises.           *)
(***************************************************************************)
EXTENDS Integers, Sequences, FiniteSets, TLC

VARIABLES
    san_in,     \* the argument of a validate_and_sanitize_analysis call
    san_out,    \* the outcome of that call
    endpoint,   \* which entry point the behaviour exercises
    now,        \* datetime.utcnow().timestamp(), in ticks
    store,      \* the DynamoDB table of the endpoint: cache_key -> item
    req         \* the requests: position, locals, collaborator calls, response

(***************************************************************************)
(* Outcomes of a call.                                                     *)
(***************************************************************************)
NoValue == <<>>
NoError == [type |-> "none", detail |-> "none"]
NotRun == [status |-> "none", value |-> NoValue, error |-> NoError]
Returned(v) == [status |-> "returned", value |-> v, error |-> NoError]
Raised(e) == [status |-> "raised", value |-> NoValue, error |-> e]

\* exceptions: botocore's ClientError (with its error code), botocore's
\* BotoCoreError, Python's KeyError / NameError / TypeError, plain Exception
ClientError(code) == [type |-> "ClientError", detail |-> code]
BotoCoreError == [type |-> "BotoCoreError", detail |-> "connection"]
KeyError(k) == [type |-> "KeyError", detail |-> k]
NameError(n) == [type |-> "NameError", detail |-> n]
TypeError(m) == [type |-> "TypeError", detail |-> m]
Exception(msg) == [type |-> "Exception", detail |-> msg]

(***************************************************************************)
(* Python built-ins used by the sanitizer.                                 *)
(***************************************************************************)
Min(a, b) == IF b < a THEN b ELSE a
Max(a, b) == IF b > a THEN b ELSE a
\* max(lo, min(hi, v))
Clamp(lo, hi, v) == Max(lo, Min(hi, v))
\* a remainder truncated toward zero, as in C
TruncMod(a, b) == IF a < 0 THEN -((-a) % b) ELSE a % b
\* Python's % : the result has the sign of the divisor (floored division)
PyMod(a, b) == a - b * (a \div b)
\* d.get(k, default)
Get(d, k, default) == IF k \in DOMAIN d THEN d[k] ELSE default
\* d[k] = v
Put(d, k, v) == [x \in DOMAIN d \cup {k} |-> IF x = k THEN v ELSE d[x]]
\* one optional key of a dict display
Opt(present, k, v) == IF present THEN k :> v ELSE <<>>

(***************************************************************************)
(* validate_and_sanitize_analysis, section by section.                     *)
(***************************************************************************)
\* if 'intensity' in emotion: emotion['intensity'] = max(0.0, min(1.0, ...))
ClampIntensity(emotion) ==
    IF "intensity" \in DOMAIN emotion
    THEN Put(emotion, "intensity", Clamp(0, 100, emotion.intensity))
    ELSE emotion

\* lines 483-490.  The loop reads data['secondary'], a key of the top-level
\* object, after testing 'secondary' in data['emotion'].
SanitizeEmotion(data) ==
    IF "emotion" \notin DOMAIN data THEN Returned(data)
    ELSE LET d1 == Put(data, "emotion", ClampIntensity(data.emotion))
         IN  IF "secondary" \notin DOMAIN d1.emotion THEN Returned(d1)
             ELSE IF "secondary" \notin DOMAIN d1 THEN Raised(KeyError("secondary"))
             ELSE Returned(Put(d1, "secondary",
                     [i \in DOMAIN d1.secondary |-> ClampIntensity(d1.secondary[i])]))

\* lines 493-496
SanitizeTiming(data) ==
    IF "animation" \in DOMAIN data /\ "timing" \in DOMAIN data.animation
    THEN LET t0 == data.animation.timing
             t1 == Put(t0, "duration", Clamp(50000, 500000, Get(t0, "duration", 200000)))
             t2 == Put(t1, "stagger_delay", Clamp(5000, 50000, Get(t1, "stagger_delay", 15000)))
         IN  Put(data, "animation", Put(data.animation, "timing", t2))
    ELSE data

\* lines 499-505
SanitizeTypography(data) ==
    IF "typography" \in DOMAIN data
    THEN LET t0 == data.typography
             t1 == Put(t0, "font_weight", Clamp(30000, 90000, Get(t0, "font_weight", 40000)))
             t2 == Put(t1, "font_scale", Clamp(80, 150, Get(t1, "font_scale", 100)))
             t3 == Put(t2, "line_height", Clamp(120, 200, Get(t2, "line_height", 160)))
             t4 == Put(t3, "letter_spacing", Clamp(-5, 20, Get(t3, "letter_spacing", 0)))
             t5 == Put(t4, "text_shadow", Clamp(0, 400, Get(t4, "text_shadow", 0)))
         IN  Put(data, "typography", t5)
    ELSE data

\* lines 508-516
SanitizeLayout(data) ==
    IF "layout" \in DOMAIN data
    THEN LET l0 == data.layout
             l1 == Put(l0, "spacing_scale", Clamp(80, 140, Get(l0, "spacing_scale", 100)))
             l2 == Put(l1, "border_radius", Clamp(0, 2000, Get(l1, "border_radius", 800)))
             l3 == Put(l2, "backdrop_blur", Clamp(0, 2000, Get(l2, "backdrop_blur", 400)))
             l4 == Put(l3, "gradient_angle", PyMod(Get(l3, "gradient_angle", 13500), 36000))
             l5 == IF "opacity_variations" \in DOMAIN l4
                   THEN Put(l4, "opacity_variations",
                            [i \in DOMAIN l4.opacity_variations |->
                                Clamp(10, 100, l4.opacity_variations[i])])
                   ELSE l4
         IN  Put(data, "layout", l5)
    ELSE data

\* if 'weight' in color: color['weight'] = max(0.1, min(1.0, color['weight']))
ClampWeight(color) ==
    IF "weight" \in DOMAIN color
    THEN Put(color, "weight", Clamp(10, 100, color.weight))
    ELSE color

\* lines 519-522
SanitizeColors(data) ==
    IF "colors" \in DOMAIN data /\ "palette" \in DOMAIN data.colors
    THEN Put(data, "colors", Put(data.colors, "palette",
             [i \in DOMAIN data.colors.palette |-> ClampWeight(data.colors.palette[i])]))
    ELSE data

validate_and_sanitize_analysis(data) ==
    LET e == SanitizeEmotion(data)
    IN  IF e.status = "raised" THEN e
        ELSE Returned(SanitizeColors(SanitizeLayout(SanitizeTypography(SanitizeTiming(e.value)))))

(***************************************************************************)
(* The analysis objects the sanitizer is applied to.                       *)
(***************************************************************************)
MaxList == 3

Sections == {"emotion", "colors", "animation", "imagery", "typography", "layout", "metadata"}
Shapes == {"full", "partial", "sparse"}
RawValues == <<-36000, -10, 5, 50, 130, 300, 1000, 20000, 45000, 200000, 1000000>>

PaletteHex == <<"#4a5568", "#718096", "#a0aec0", "#cbd5e0", "#e2e8f0">>

\* a list of n numbers alternating between v and w
Alternating(n, v, w) == [i \in 1..n |-> IF i % 2 = 1 THEN v ELSE w]

\* an object of the shape the prompt asks the model for (lines 248-307):
\* the sections in S, every numeric field holding v or w
SampleAnalysis(S, shape, v, w, n, sec) ==
    LET full == shape = "full"
        part == shape # "sparse"
        emotion == [primary |-> "joy"]
                   @@ Opt(full, "intensity", v)
                   @@ Opt(sec, "secondary",
                          [i \in 1..n |-> [emotion |-> "calm",
                                           intensity |-> Alternating(n, w, v)[i]]])
        palette == [i \in 1..n |->
                       [hex |-> PaletteHex[((i - 1) % Len(PaletteHex)) + 1], role |-> "primary"]
                       @@ Opt(full \/ i % 2 = 1, "weight", Alternating(n, v, w)[i])]
        colors == [dominant_temperature |-> "neutral", saturation_level |-> "medium"]
                  @@ Opt(part, "palette", palette)
        timing == [easing |-> "ease-out"]
                  @@ Opt(part, "duration", v) @@ Opt(full, "stagger_delay", w)
        animation == [style |-> "calm", movement_type |-> "fade"]
                     @@ Opt(part, "timing", timing)
        imagery == [keywords |-> <<"abstract">>, category |-> "abstract", visual_density |-> v]
        typography == [mood |-> "modern"]
                      @@ Opt(part, "font_weight", v) @@ Opt(full, "font_scale", w)
                      @@ Opt(part, "line_height", v) @@ Opt(full, "letter_spacing", w)
                      @@ Opt(full, "text_shadow", v)
        layout == Opt(full, "spacing_scale", v) @@ Opt(full, "border_radius", w)
                  @@ Opt(full, "backdrop_blur", v) @@ Opt(part, "gradient_angle", w)
                  @@ Opt(part, "opacity_variations", Alternating(n, v, w))
        metadata == [analysis_confidence |-> v, processing_notes |-> "note"]
    IN  Opt("emotion" \in S, "emotion", emotion)
        @@ Opt("colors" \in S, "colors", colors)
        @@ Opt("animation" \in S, "animation", animation)
        @@ Opt("imagery" \in S, "imagery", imagery)
        @@ Opt("typography" \in S, "typography", typography)
        @@ Opt("layout" \in S, "layout", layout)
        @@ Opt("metadata" \in S, "metadata", metadata)

\* the objects of test_validate_and_sanitize_analysis_* (lines 141-226)
TestEmotion == [emotion |-> [primary |-> "joy", intensity |-> 150,
                             secondary |-> <<[emotion |-> "excitement", intensity |-> -20]>>]]
TestTiming == [animation |-> [timing |-> [duration |-> 10000, stagger_delay |-> 60000]]]
TestTypography == [typography |-> [font_weight |-> 10000, font_scale |-> 200, line_height |-> 100,
                                   letter_spacing |-> -10, text_shadow |-> 1000]]
TestLayout == [layout |-> [spacing_scale |-> 50, border_radius |-> 2500, backdrop_blur |-> -500,
                           gradient_angle |-> 45000, opacity_variations |-> <<5, 150, -10>>]]
TestColors == [colors |-> [palette |-> <<[hex |-> "#ff0000", weight |-> 150, role |-> "primary"],
                                         [hex |-> "#00ff00", weight |-> 5, role |-> "secondary"]>>]]
TestInputs == {TestEmotion, TestTiming, TestTypography, TestLayout, TestColors}
\* the first of them with a list under the top-level key the loop of line 488 reads
StraySecondary == Put(TestEmotion, "secondary", <<[emotion |-> "calm", intensity |-> 700]>>)

\* the dict display of create_fallback_analysis (lines 412-469), `false` read as
\* False: every section present, every number inside its interval
FallbackDisplay ==
    [emotion |-> [primary |-> "contemplative", intensity |-> 50,
                  secondary |-> <<[emotion |-> "calm", intensity |-> 30]>>],
     colors |-> [palette |-> <<[hex |-> "#4a5568", weight |-> 80, role |-> "primary"],
                               [hex |-> "#718096", weight |-> 60, role |-> "secondary"],
                               [hex |-> "#a0aec0", weight |-> 40, role |-> "accent"],
                               [hex |-> "#cbd5e0", weight |-> 30, role |-> "neutral"],
                               [hex |-> "#e2e8f0", weight |-> 20, role |-> "highlight"]>>,
                 dominant_temperature |-> "neutral", saturation_level |-> "medium"],
     animation |-> [style |-> "calm",
                    timing |-> [duration |-> 200000, stagger_delay |-> 15000, easing |-> "ease-out"],
                    movement_type |-> "fade",
                    particles |-> [enabled |-> FALSE, type |-> "dust", density |-> 20, speed |-> 50]],
     imagery |-> [keywords |-> <<"abstract", "contemplative", "peaceful">>,
                  category |-> "abstract", visual_density |-> 50],
     typography |-> [mood |-> "modern", font_weight |-> 40000, font_scale |-> 100,
                     line_height |-> 160, letter_spacing |-> 0, text_shadow |-> 0],
     layout |-> [spacing_scale |-> 100, border_radius |-> 800, backdrop_blur |-> 400,
                 gradient_angle |-> 13500, opacity_variations |-> <<90, 60, 30>>],
     metadata |-> [analysis_confidence |-> 30,
                   processing_notes |-> "Fallback analysis due to parsing error"]]

\* the same object without the optional list of secondary emotions
WithoutSecondary(data) ==
    [data EXCEPT !.emotion = [k \in DOMAIN data.emotion \ {"secondary"} |-> data.emotion[k]]]
ValidInputs == {FallbackDisplay, WithoutSecondary(FallbackDisplay)}

SanInputs ==
    TestInputs \cup {StraySecondary} \cup ValidInputs \cup
    { SampleAnalysis(S, shape, RawValues[i], RawValues[(i % Len(RawValues)) + 1], n, sec) :
        S \in SUBSET Sections, shape \in Shapes, i \in 1..Len(RawValues),
        n \in 0..MaxList, sec \in BOOLEAN }

vars == <<san_in, san_out, endpoint, now, store, req>>

(***************************************************************************)
(* SpecSan: one call of validate_and_sanitize_analysis on any such object. *)
(***************************************************************************)
InitSan ==
    /\ san_in \in SanInputs
    /\ san_out = NotRun
    /\ endpoint = "sanitizer"
    /\ now = 0
    /\ store = <<>>
    /\ req = <<>>

Sanitize ==
    /\ san_out.status = "none"
    /\ san_out' = validate_and_sanitize_analysis(san_in)
    /\ UNCHANGED <<san_in, endpoint, now, store, req>>

\* the returned object sanitized once more
Resanitize ==
    /\ san_out.status = "returned"
    /\ req = <<>>
    /\ req' = validate_and_sanitize_analysis(san_out.value)
    /\ UNCHANGED <<san_in, san_out, endpoint, now, store>>

NextSan ==
    \/ Sanitize
    \/ Resanitize

SpecSan == InitSan /\ [][NextSan]_vars

(***************************************************************************)
(* theme_analyzer.py: configuration.                                       *)
(***************************************************************************)
CACHE_TTL_HOURS == 168
MAX_RETRIES == 3
BASE_DELAY == 1
MAX_DELAY == 16
THEME_MODEL_ID == "anthropic.claude-3-5-haiku-20241022-v1:0"

(***************************************************************************)
(* Bounds of the handler model.                                            *)
(***************************************************************************)
MaxReq == 2             \* requests in one behaviour
TicksPerSecond == 2     \* resolution of the clock
ContentLines == 15      \* lines of the longest model text

\* random.uniform(0, 1), in hundredths of a second
Jitters == {0, 50, 100}
\* the draws a pass of the retry loop can make: only the ClientError branch draws
UsedJitters(res) == IF res.status = "raised" /\ res.error.type = "ClientError"
                    THEN Jitters ELSE {0}

\* Python's None
None == [py_none |-> TRUE]
\* truth value of an Optional[dict]: None and {} are false
Truthy(x) == x # None /\ DOMAIN x # {}

(***************************************************************************)
(* create_fallback_analysis (lines 404-469).  The dict display names       *)
(* `false` (line 439), which is bound nowhere in the module or in          *)
(* builtins: evaluating it raises NameError, so the function never         *)
(* returns.  FallbackDisplay is the display with `false` read as False.    *)
(***************************************************************************)
create_fallback_analysis == Raised(NameError("false"))

(***************************************************************************)
(* The text of a model response.  form says what json and the regular      *)
(* expression \{[\s\S]*\} make of it:                                      *)
(*   "object"          the text is one JSON object                         *)
(*   "object_in_prose" a JSON object between two pieces of prose           *)
(*   "prose"           no brace at all, and not JSON                       *)
(*   "broken"          braces, but the span between them is not JSON       *)
(*   "scalar"          no brace; the whole text is a JSON number or list   *)
(***************************************************************************)
Text(form, obj) == [type |-> "text", form |-> form, obj |-> obj]

\* a parsed JSON value that is no object
JsonScalar == [json_scalar |-> TRUE]

\* theme_analyzer.extract_json_from_response (lines 378-401)
theme_extract_json_from_response(content) ==
    IF content.form \in {"object", "object_in_prose"} THEN Returned(content.obj)
    ELSE IF content.form = "scalar" THEN Returned(JsonScalar)
    ELSE create_fallback_analysis     \* the except json.JSONDecodeError branch

\* hashlib.sha256(normalized).hexdigest(): collision-free on the bounded inputs
sha256(x) == <<"sha256", x>>
\* A text is a sequence of characters: letters in either case, the space,
\* carriage return and line feed.
Whitespace == {" ", "CR", "LF"}
\* str.strip()
RECURSIVE lstrip(_)
lstrip(s) == IF s # <<>> /\ Head(s) \in Whitespace THEN lstrip(Tail(s)) ELSE s
RECURSIVE rstrip(_)
rstrip(s) == IF s # <<>> /\ s[Len(s)] \in Whitespace
             THEN rstrip(SubSeq(s, 1, Len(s) - 1)) ELSE s
strip(s) == rstrip(lstrip(s))
\* a key that keeps the case of the letters
KeepCase(s) == s
\* str.lower()
lower(s) == [i \in DOMAIN s |-> CASE s[i] = "A" -> "a" [] s[i] = "B" -> "b" [] OTHER -> s[i]]
\* .replace('\r\n', '\n'): left to right, without overlap
RECURSIVE replace_crlf(_)
replace_crlf(s) ==
    IF Len(s) < 2 THEN s
    ELSE IF s[1] = "CR" /\ s[2] = "LF" THEN <<"LF">> \o replace_crlf(SubSeq(s, 3, Len(s)))
    ELSE <<s[1]>> \o replace_crlf(Tail(s))
\* .replace('\r', '\n')
replace_cr(s) == [i \in DOMAIN s |-> IF s[i] = "CR" THEN "LF" ELSE s[i]]
\* theme_analyzer.generate_cache_key (lines 527-538)
generate_cache_key(poem_text) == sha256(replace_cr(replace_crlf(lower(strip(poem_text)))))
\* s[:n]
Prefix(s, n) == <<"prefix", n, s>>

\* analyze_theme_with_bedrock (lines 170-375): o is what
\* bedrock_client.invoke_model does, t the clock
analyze_theme_with_bedrock(o, poem_text, t) ==
    IF o.type = "ClientError"
    THEN Raised(Exception(
            CASE o.detail = "ThrottlingException" ->
                    "Analysis service is currently busy. Please try again in a moment."
              [] o.detail = "ValidationException" -> "Invalid analysis request format."
              [] o.detail = "AccessDeniedException" -> "Access denied to analysis service."
              [] OTHER -> "Analysis service error"))
    ELSE IF o.type = "BotoCoreError"
    THEN Raised(Exception("AWS service connection error during analysis."))
    ELSE LET j == theme_extract_json_from_response(o)
             failed == Raised(Exception("Failed to complete theme analysis."))
         IN  IF j.status = "raised" THEN failed
             ELSE IF j.value = JsonScalar THEN failed         \* TypeError, line 345
             ELSE IF "metadata" \notin DOMAIN j.value THEN failed   \* KeyError, line 345
             ELSE LET m1 == Put(j.value.metadata, "analysis_timestamp", t)
                      m2 == Put(m1, "model_used", THEME_MODEL_ID)
                      m3 == Put(m2, "poem_hash", Prefix(generate_cache_key(poem_text), 16))
                      s == validate_and_sanitize_analysis(Put(j.value, "metadata", m3))
                  IN  IF s.status = "raised" THEN failed ELSE s

\* a read that still serves an item at the very second of its ttl
ServedAtExpiry(st, cache_key, t, fails) ==
    IF fails THEN None
    ELSE IF /\ cache_key \in DOMAIN st
            /\ "ttl" \in DOMAIN st[cache_key]
            /\ st[cache_key].ttl * TicksPerSecond >= t
         THEN st[cache_key].analysis_data
         ELSE None

\* get_cached_analysis (lines 541-565); fails: table.get_item raises
get_cached_analysis(st, cache_key, t, fails) ==
    IF fails THEN None
    ELSE IF /\ cache_key \in DOMAIN st
            /\ "ttl" \in DOMAIN st[cache_key]
            /\ st[cache_key].ttl * TicksPerSecond > t
         THEN st[cache_key].analysis_data
         ELSE None

\* the item cache_analysis puts (lines 580-589); int() truncates to seconds
ThemeItem(cache_key, analysis_data, t) ==
    [cache_key |-> cache_key,
     analysis_data |-> analysis_data,
     ttl |-> (t + CACHE_TTL_HOURS * 3600 * TicksPerSecond) \div TicksPerSecond,
     created_at |-> t,
     poem_preview |-> Prefix(Get(Get(analysis_data, "metadata", <<>>), "poem_hash", ""), 50)]

(***************************************************************************)
(* Responses (create_response / create_error_response).  An error body     *)
(* has no 'cached' and no 'data' key: cached is FALSE and data NoValue.    *)
(***************************************************************************)
NoResponse == [statusCode |-> 0, success |-> FALSE, cached |-> FALSE, data |-> NoValue, code |-> "none"]
\* a handler that answers every failure as a success without data
ErrorAnsweredAsSuccess(status, code) ==
    [statusCode |-> 200, success |-> TRUE, cached |-> FALSE, data |-> NoValue, code |-> code]

create_response(data, cached) ==
    [statusCode |-> 200, success |-> TRUE, cached |-> cached, data |-> data, code |-> "none"]
create_error_response(status, code) ==
    [statusCode |-> status, success |-> FALSE, cached |-> FALSE, data |-> NoValue, code |-> code]

\* a retry loop that compares the attempt number with MAX_RETRIES instead of
\* MAX_RETRIES - 1, and so sleeps after the third failure too
RetryStepOffByOne(res, attempt, jitter) ==
    IF res.status = "returned"
    THEN [next |-> "return", outcome |-> res, delay |-> 0, jitter |-> FALSE]
    ELSE IF attempt < MAX_RETRIES
         THEN [next |-> "sleep", outcome |-> res,
               delay |-> Min(100 * BASE_DELAY * (2 ^ attempt), 100 * MAX_DELAY),
               jitter |-> FALSE]
         ELSE [next |-> "raise", outcome |-> res, delay |-> 0, jitter |-> FALSE]

(***************************************************************************)
(* One pass of the loop of analyze_theme_with_retry (lines 140-164), given *)
(* the outcome res of its call of analyze_theme_with_bedrock: return the   *)
(* value, sleep and continue, or raise.  Delays are hundredths of a second.*)
(***************************************************************************)
RetryStep(res, attempt, jitter) ==
    IF res.status = "returned"
    THEN [next |-> "return", outcome |-> res, delay |-> 0, jitter |-> FALSE]
    ELSE IF res.error.type = "ClientError"
    THEN IF res.error.detail = "ThrottlingException" /\ attempt < MAX_RETRIES - 1
         THEN [next |-> "sleep", outcome |-> res,
               delay |-> Min(100 * BASE_DELAY * (2 ^ attempt) + jitter, 100 * MAX_DELAY),
               jitter |-> TRUE]
         ELSE [next |-> "raise", outcome |-> res, delay |-> 0, jitter |-> FALSE]
    ELSE IF attempt < MAX_RETRIES - 1
         THEN [next |-> "sleep", outcome |-> res,
               delay |-> Min(100 * BASE_DELAY * (2 ^ attempt), 100 * MAX_DELAY),
               jitter |-> FALSE]
         ELSE [next |-> "raise", outcome |-> res, delay |-> 0, jitter |-> FALSE]

(***************************************************************************)
(* What the collaborators may do.                                          *)
(***************************************************************************)
ClientErrorCodes == {"ThrottlingException", "ValidationException",
                     "AccessDeniedException", "ServiceUnavailableException"}
ModelFailures == {ClientError(c) : c \in ClientErrorCodes} \cup {BotoCoreError}

\* JSON objects a model may answer the theme prompt with: every section and no
\* secondary emotions; the prompt's own output format (lines 248-307), which
\* has secondary emotions; the object of test_analyze_theme_with_bedrock_success,
\* which has no metadata
ThemePlain == SampleAnalysis(Sections, "full", 130, 45000, 2, FALSE)
ThemePrompted == SampleAnalysis(Sections, "full", 130, 45000, 2, TRUE)
ThemeBare == [emotion |-> [primary |-> "joy", intensity |-> 80]]
ThemeTexts ==
    {Text("prose", NoValue), Text("broken", NoValue), Text("scalar", JsonScalar),
     Text("object", ThemePlain), Text("object_in_prose", ThemePlain),
     Text("object", ThemePrompted), Text("object", ThemeBare)}
ThemeModelOutcomes == ModelFailures \cup ThemeTexts

\* what a patched analyze_theme_with_bedrock returns or raises in
\* test_analyze_theme_with_retry_* (test lines 371-418)
StubResults ==
    {Returned([emotion |-> [primary |-> "joy"]])}
    \cup {Raised(e) : e \in ModelFailures}
    \cup {Raised(Exception("Failed to complete theme analysis."))}

\* the class of a collaborator outcome, as kept in a request's record
Class(o) == IF o.type = "text"
            THEN IF o.form \in {"object", "object_in_prose"} THEN "json" ELSE "unparsable"
            ELSE IF o.type = "ClientError" /\ o.detail \in {"ValidationException",
                                                            "AccessDeniedException"}
                 THEN "rejected"
            ELSE "retryable"      \* throttled, transient or unknown

\* stripped request texts
Poems == {<<"a">>, <<"b", "LF", "a">>}

(***************************************************************************)
(* Requests.                                                               *)
(***************************************************************************)
Reqs == 1..MaxReq
IdleReq ==
    [pc |-> "idle", input |-> NoValue, cache_key |-> NoValue,
     at |-> 0,                  \* the clock when the request arrived
     attempt |-> 0,             \* the loop variable of analyze_theme_with_retry
     ncalls |-> 0,              \* model invocations made
     seen |-> {},               \* classes of their outcomes
     pending |-> NoValue,       \* the delay about to be slept
     sleeps |-> <<>>,           \* the time.sleep calls made, in order
     last |-> NotRun,           \* outcome of the latest call of a patched collaborator
     result |-> NotRun,         \* what the analysis or generation produced
     read_failed |-> FALSE,     \* the cache read raised
     writes |-> 0,              \* put_item calls made
     write_failed |-> FALSE,    \* the cache write raised
     store_failed |-> FALSE,    \* summary: some cache call raised
     model_json |-> TRUE,       \* summary: every model invocation answered a JSON object
     resp |-> NoResponse]

\* When the next request starts, the bookkeeping of a served request is
\* dropped: its input, key, response and summary are kept.
Archive(rec) ==
    IF rec.pc = "done"
    THEN [IdleReq EXCEPT !.pc = "archived", !.input = rec.input, !.cache_key = rec.cache_key,
                         !.at = rec.at,
                         !.store_failed = rec.store_failed, !.model_json = rec.model_json,
                         !.resp = rec.resp]
    ELSE rec
\* request r starts as rec
Start(r, rec) == [q \in Reqs |-> IF q = r THEN rec ELSE Archive(req[q])]

\* requests are served one after the other
CanStart(r) ==
    /\ req[r].pc = "idle"
    /\ \A q \in Reqs : q < r => req[q].pc \in {"done", "archived"}

TtlTicks == IF endpoint = "theme" THEN CACHE_TTL_HOURS * 3600 * TicksPerSecond
            ELSE 86400 * TicksPerSecond
TimePoints == {0, 1, TtlTicks - 1, TtlTicks, TtlTicks + 1}

\* time passes between two requests (a request is served within one tick);
\* the first request arrives within the first second
Tick ==
    /\ endpoint \in {"theme", "poem"}
    /\ \A r \in Reqs : req[r].pc \in {"idle", "done", "archived"}
    /\ \E r \in Reqs : req[r].pc = "idle"
    /\ \E t \in TimePoints :
        /\ t > now
        /\ req[1].pc = "idle" => t < TicksPerSecond
        /\ now' = t
    /\ UNCHANGED <<san_in, san_out, endpoint, store, req>>

(***************************************************************************)
(* theme_analyzer.lambda_handler (lines 31-100), for a valid body.         *)
(***************************************************************************)
\* lines 45-67: parse, validate, strip, key
ThemeReceive(r) ==
    /\ endpoint = "theme"
    /\ CanStart(r)
    /\ \E p \in Poems :
        req' = Start(r, [IdleReq EXCEPT !.pc = "cache_read", !.input = p, !.at = now,
                                        !.cache_key = generate_cache_key(p)])
    /\ UNCHANGED <<san_in, san_out, endpoint, now, store>>

\* lines 70-78
ThemeCacheRead(r) ==
    /\ endpoint = "theme"
    /\ req[r].pc = "cache_read"
    /\ \E fails \in BOOLEAN :
        LET cached == get_cached_analysis(store, req[r].cache_key, now, fails)
        IN  req' = [req EXCEPT ![r] =
                IF Truthy(cached)
                THEN [@ EXCEPT !.pc = "done", !.resp = create_response(cached, TRUE)]
                ELSE [@ EXCEPT !.pc = "model", !.read_failed = fails,
                               !.store_failed = fails]]
    /\ UNCHANGED <<san_in, san_out, endpoint, now, store>>

\* line 81 and lines 98-100: one attempt of analyze_theme_with_retry
ThemeAttempt(r) ==
    /\ endpoint = "theme"
    /\ req[r].pc = "model"
    /\ \E o \in ThemeModelOutcomes :
      \E jitter \in UsedJitters(analyze_theme_with_bedrock(o, req[r].input, now)) :
        LET res == analyze_theme_with_bedrock(o, req[r].input, now)
            step == RetryStep(res, req[r].attempt, jitter)
            called == [req[r] EXCEPT !.ncalls = @ + 1, !.seen = @ \cup {Class(o)},
                                     !.model_json = @ /\ Class(o) = "json"]
        IN  req' = [req EXCEPT ![r] =
                CASE step.next = "return" ->
                        [called EXCEPT !.pc = "cache_write", !.result = step.outcome]
                  [] step.next = "sleep" ->
                        [called EXCEPT !.pc = "sleep",
                            !.pending = [delay |-> step.delay, jitter |-> step.jitter]]
                  [] step.next = "raise" ->    \* caught at line 98, logged
                        [called EXCEPT !.pc = "done",
                            !.resp = create_error_response(500, "INTERNAL_ERROR")]]
    /\ UNCHANGED <<san_in, san_out, endpoint, now, store>>

\* time.sleep(delay); continue
Sleep(r) ==
    /\ endpoint \in {"theme", "retry"}
    /\ req[r].pc = "sleep"
    /\ req' = [req EXCEPT ![r] = [@ EXCEPT !.pc = "model", !.attempt = @ + 1,
                                           !.sleeps = Append(@, req[r].pending),
                                           !.pending = NoValue]]
    /\ UNCHANGED <<san_in, san_out, endpoint, now, store>>

\* lines 84-96: cache_analysis (lines 568-596), then the response
ThemeCacheWrite(r) ==
    /\ endpoint = "theme"
    /\ req[r].pc = "cache_write"
    /\ \E fails \in BOOLEAN :
        /\ store' = IF fails THEN store
                    ELSE Put(store, req[r].cache_key,
                             ThemeItem(req[r].cache_key, req[r].result.value, now))
        /\ req' = [req EXCEPT ![r] =
                [@ EXCEPT !.pc = "done", !.write_failed = fails,
                          !.store_failed = @ \/ fails,
                          !.writes = IF fails THEN @ ELSE @ + 1,
                          !.resp = create_response(req[r].result.value, FALSE)]]
    /\ UNCHANGED <<san_in, san_out, endpoint, now>>

(***************************************************************************)
(* analyze_theme_with_retry called with analyze_theme_with_bedrock         *)
(* patched, as in test_analyze_theme_with_retry_*.                         *)
(***************************************************************************)
RetryStart(r) ==
    /\ endpoint = "retry"
    /\ CanStart(r)
    /\ \E p \in Poems :
        req' = Start(r, [IdleReq EXCEPT !.pc = "model", !.input = p])
    /\ UNCHANGED <<san_in, san_out, endpoint, now, store>>

RetryAttempt(r) ==
    /\ endpoint = "retry"
    /\ req[r].pc = "model"
    /\ \E res \in StubResults :
      \E jitter \in UsedJitters(res) :
        LET step == RetryStep(res, req[r].attempt, jitter)
            called == [req[r] EXCEPT !.ncalls = @ + 1, !.last = res,
                        !.seen = @ \cup {IF res.status = "returned" THEN "json"
                                         ELSE Class(res.error)}]
        IN  req' = [req EXCEPT ![r] =
                IF step.next = "sleep"
                THEN [called EXCEPT !.pc = "sleep",
                        !.pending = [delay |-> step.delay, jitter |-> step.jitter]]
                ELSE [called EXCEPT !.pc = "done", !.result = step.outcome]]
    /\ UNCHANGED <<san_in, san_out, endpoint, now, store>>

(***************************************************************************)
(* lambda_function.py: texts.  A request word is the sequence of its       *)
(* pieces, the maximal runs without a line break: <<"dance">> is "dance",  *)
(* <<"dance", "now">> is "dance\nnow".  A text is the sequence of its      *)
(* lines and a line the sequence of its whitespace-separated words.        *)
(***************************************************************************)
\* the string of a word
RECURSIVE Str(_)
Str(word) == IF Len(word) = 1 THEN word[1]
             ELSE word[1] \o "\n" \o Str(Tail(word))

\* items of an f-string line: literal words, and {name} followed by suffix
Lit(ws) == [i \in DOMAIN ws |-> [ph |-> "", s |-> ws[i]]]
Ph(name, suffix) == <<[ph |-> name, s |-> suffix]>>

\* lines 935-948
NatureTemplate ==
    <<Lit(<<"In", "the">>) \o Ph("adjective", "") \o Lit(<<"light", "of", "dawn,">>),
      Lit(<<"Where">>) \o Ph("noun", "") \o Ph("verb", "") \o Lit(<<"with", "grace", "unknown,">>),
      Lit(<<"Through", "meadows", "where", "the", "wild", "winds">>) \o Ph("verb", ","),
      Lit(<<"And">>) \o Ph("adjective", "") \o Lit(<<"dreams", "are", "gently", "sown.">>),
      <<>>,
      Lit(<<"The">>) \o Ph("noun", "") \o Lit(<<"speaks", "in", "whispered", "tones,">>),
      Lit(<<"Of">>) \o Ph("adjective", "") \o Lit(<<"tales", "from", "times", "before,">>),
      Lit(<<"While", "shadows">>) \o Ph("verb", "") \o Lit(<<"through", "ancient", "stones,">>),
      Lit(<<"And", "secrets", "wait", "by", "every", "shore.">>),
      <<>>,
      Lit(<<"O">>) \o Ph("adjective", "") \o Ph("noun", ",") \o Lit(<<"forever">>) \o Ph("verb", ","),
      Lit(<<"In", "realms", "where", "mortal", "eyes", "can't", "see,">>),
      Lit(<<"Your", "essence", "shall", "forever">>) \o Ph("verb", ","),
      Lit(<<"In">>) \o Ph("adjective", "") \o Lit(<<"eternity.">>)>>

\* lines 951-964
UrbanTemplate ==
    <<Lit(<<"Through">>) \o Ph("adjective", "") \o Lit(<<"streets", "the">>) \o Ph("noun", "") \o Lit(<<"moves,">>),
      Lit(<<"In", "rhythms", "that", "the", "city">>) \o Ph("verb", ","),
      Lit(<<"Where", "neon", "lights", "in">>) \o Ph("adjective", "") \o Lit(<<"grooves">>),
      Lit(<<"Paint", "stories", "that", "the", "night", "has", "heard.">>),
      <<>>,
      Lit(<<"The">>) \o Ph("noun", "") \o Ph("verb", "") \o Lit(<<"through", "concrete", "dreams,">>),
      Lit(<<"Past", "windows", "where", "the", "lonely", "dwell,">>),
      Lit(<<"In">>) \o Ph("adjective", "") \o Lit(<<"light", "and", "midnight", "schemes,">>),
      Lit(<<"With", "tales", "that", "only", "shadows", "tell.">>),
      <<>>,
      Lit(<<"And", "in", "this">>) \o Ph("adjective", "") \o Lit(<<"urban", "sea,">>),
      Lit(<<"The">>) \o Ph("noun", "") \o Lit(<<"continues", "still", "to">>) \o Ph("verb", ","),
      Lit(<<"A", "beacon", "of", "what", "we", "could", "be,">>),
      Lit(<<"In", "worlds", "where">>) \o Ph("adjective", "") \o Lit(<<"spirits", "serve.">>)>>

\* lines 967-980
IntrospectiveTemplate ==
    <<Lit(<<"Within", "the">>) \o Ph("adjective", "") \o Lit(<<"chambers", "of", "the", "heart,">>),
      Lit(<<"Where">>) \o Ph("noun", "") \o Lit(<<"and", "soul">>) \o Ph("verb", "") \o Lit(<<"as", "one,">>),
      Lit(<<"Each">>) \o Ph("adjective", "") \o Lit(<<"thought,", "each", "feeling's", "art,">>),
      Lit(<<"Reveals", "what", "we've", "become.">>),
      <<>>,
      Lit(<<"The">>) \o Ph("noun", "") \o Ph("verb", "") \o Lit(<<"through", "memories", "deep,">>),
      Lit(<<"In">>) \o Ph("adjective", "") \o Lit(<<"corridors", "of", "time,">>),
      Lit(<<"Where", "treasured", "moments", "softly", "sleep,">>),
      Lit(<<"In", "rhythm", "and", "in", "rhyme.">>),
      <<>>,
      Lit(<<"So", "let", "the">>) \o Ph("adjective", "") \o Ph("noun", "") \o Ph("verb", ","),
      Lit(<<"Through", "pathways", "of", "the", "mind", "and", "soul,">>),
      Lit(<<"And", "in", "its", "gentle,">>) \o Ph("adjective", "") \o Lit(<<"curve,">>),
      Lit(<<"We'll", "find", "ourselves", "made", "whole.">>)>>

\* lines 933-981
poem_templates == <<NatureTemplate, UrbanTemplate, IntrospectiveTemplate>>

\* what an item puts into the text: the pieces of the word, the suffix glued
\* to the last one
Pieces(item, w) ==
    IF item.ph = "" THEN <<item.s>>
    ELSE LET word == w[item.ph]
         IN  [i \in DOMAIN word |-> IF i = Len(word) THEN word[i] \o item.s ELSE word[i]]

\* the first piece continues the last line, every further piece opens a line
AddPieces(lines, ps) ==
    [lines EXCEPT ![Len(lines)] = Append(@, ps[1])]
        \o [i \in 1..(Len(ps) - 1) |-> <<ps[i + 1]>>]

RECURSIVE RenderItems(_, _, _)
RenderItems(items, w, lines) ==
    IF items = <<>> THEN lines
    ELSE RenderItems(Tail(items), w, AddPieces(lines, Pieces(Head(items), w)))

\* the f-string with w.verb, w.adjective, w.noun substituted
RECURSIVE Render(_, _)
Render(template, w) ==
    IF template = <<>> THEN <<>>
    ELSE RenderItems(Head(template), w, << <<>> >>) \o Render(Tail(template), w)

\* len(text.split())
RECURSIVE CountWords(_)
CountWords(text) == IF text = <<>> THEN 0 ELSE Len(Head(text)) + CountWords(Tail(text))

\* [line.strip() for line in content.split('\n') if line.strip()]
RECURSIVE NonEmptyLines(_)
NonEmptyLines(text) ==
    IF text = <<>> THEN <<>>
    ELSE IF Head(text) = <<>> THEN NonEmptyLines(Tail(text))
    ELSE <<Head(text)>> \o NonEmptyLines(Tail(text))

\* lst[:n]
Take(lst, n) == SubSeq(lst, 1, Min(n, Len(lst)))

(***************************************************************************)
(* convert_colors_to_hex (lines 648-677).  A colour token is a record:     *)
(* text is its lower-cased, stripped form, raw tells whether the token     *)
(* had that form already.                                                  *)
(***************************************************************************)
color_map ==
    [red |-> "#dc2626", crimson |-> "#dc143c", scarlet |-> "#ff2400",
     blue |-> "#2563eb", navy |-> "#000080", azure |-> "#007fff",
     green |-> "#16a34a", emerald |-> "#059669", forest |-> "#228b22",
     yellow |-> "#ca8a04", gold |-> "#ffd700", amber |-> "#f59e0b",
     purple |-> "#9333ea", violet |-> "#8b5cf6", indigo |-> "#4f46e5",
     orange |-> "#ea580c", coral |-> "#ff7f50", salmon |-> "#fa8072",
     pink |-> "#ec4899", rose |-> "#f43f5e", magenta |-> "#d946ef",
     brown |-> "#a16207", tan |-> "#d2b48c", beige |-> "#f5f5dc",
     gray |-> "#6b7280", grey |-> "#6b7280", silver |-> "#c0c0c0",
     black |-> "#1f2937", white |-> "#f9fafb",
     teal |-> "#0d9488", cyan |-> "#0891b2", lime |-> "#65a30d"]
\* color.lower().strip(), on the tokens the bounded inputs use
LowerStrip(color) ==
    CASE color = "RED" -> "red"
      [] color = " Blue " -> "blue"
      [] color = "#FF0000" -> "#ff0000"
      [] OTHER -> color

\* color_map.get(color_lower, '#6b7280') for every token, in order
convert_colors_to_hex(colors) ==
    [i \in DOMAIN colors |-> Get(color_map, LowerStrip(colors[i]), "#6b7280")]

(***************************************************************************)
(* validate_and_enhance_analysis (lines 574-646)                           *)
(***************************************************************************)
\* lines 587-593
EnhanceRhyme(rhyme) ==
    LET r1 == Put(rhyme, "density", Clamp(0, 100, Get(rhyme, "density", 0)))
    IN  IF "typography" \in DOMAIN r1
        THEN Put(r1, "typography",
                 Put(r1.typography, "line_spacing",
                     Clamp(120, 200, Get(r1.typography, "line_spacing", 160))))
        ELSE r1

\* lines 596-603
EnhanceRhythm(rhythm) ==
    IF "animation_timing" \notin DOMAIN rhythm THEN rhythm
    ELSE LET t1 == Put(rhythm.animation_timing, "base_duration",
                       Clamp(50000, 500000,
                             Get(rhythm.animation_timing, "base_duration", 200000)))
             t2 == IF "stagger_pattern" \in DOMAIN t1
                   THEN Put(t1, "stagger_pattern",
                            [i \in DOMAIN t1.stagger_pattern |->
                                Clamp(0, 100000, t1.stagger_pattern[i])])
                   ELSE t1
         IN  Put(rhythm, "animation_timing", t2)

\* lines 606-615
EnhanceReadingPace(pace) ==
    LET p1 == Put(pace, "complexity_score",
                  Clamp(10, 100, Get(pace, "complexity_score", 50)))
    IN  IF "auto_scroll_timing" \notin DOMAIN p1 THEN p1
        ELSE LET s1 == Put(p1.auto_scroll_timing, "base_speed",
                           Clamp(10000, 50000,
                                 Get(p1.auto_scroll_timing, "base_speed", 20000)))
                 s2 == IF "pause_points" \in DOMAIN s1
                       THEN Put(s1, "pause_points",
                                [i \in DOMAIN s1.pause_points |->
                                    Clamp(100, 1200, s1.pause_points[i])])
                       ELSE s1
             IN  Put(p1, "auto_scroll_timing", s2)

\* lines 618-624
EnhanceTemporal(temporal) ==
    IF /\ "background_suggestions" \in DOMAIN temporal
       /\ "gradient_colors" \in DOMAIN temporal.background_suggestions
    THEN Put(temporal, "background_suggestions",
             Put(temporal.background_suggestions, "gradient_colors",
                 convert_colors_to_hex(temporal.background_suggestions.gradient_colors)))
    ELSE temporal

\* lines 627-630
EnhanceTraditional(traditional) ==
    IF "dominant_colors" \in DOMAIN traditional
    THEN Put(traditional, "dominant_colors",
             convert_colors_to_hex(traditional.dominant_colors))
    ELSE traditional

\* lines 633-644; m is analysis['metadata'], or {} when there is none
EnhanceMetadata(m) ==
    Put(Put(m, "analysis_confidence", Get(m, "analysis_confidence", 80)),
        "enhanced_features",
        <<"rhyme_detection", "metaphor_identification", "rhythm_analysis",
          "temporal_detection", "reading_pace", "accessibility_descriptions">>)

\* section k of the analysis, after the function
EnhanceSection(analysis, k) ==
    CASE k = "rhyme" -> EnhanceRhyme(analysis[k])
      [] k = "rhythm" -> EnhanceRhythm(analysis[k])
      [] k = "reading_pace" -> EnhanceReadingPace(analysis[k])
      [] k = "temporal" -> EnhanceTemporal(analysis[k])
      [] k = "traditional" -> EnhanceTraditional(analysis[k])
      [] k = "metadata" -> EnhanceMetadata(Get(analysis, "metadata", <<>>))
      [] OTHER -> analysis[k]

\* the sections are updated in place, each on its own
validate_and_enhance_analysis(poem_data) ==
    IF "analysis" \notin DOMAIN poem_data THEN poem_data
    ELSE Put(poem_data, "analysis",
             [k \in DOMAIN poem_data.analysis \cup {"metadata"} |->
                EnhanceSection(poem_data.analysis, k)])

(***************************************************************************)
(* transform_analysis_for_frontend (lines 679-811)                         *)
(***************************************************************************)
DefaultColors == <<"#6b7280", "#9ca3af", "#d1d5db", "#f3f4f6", "#ffffff">>
intensity_map ==
    [intense |-> "high", passionate |-> "high", angry |-> "high", excited |-> "high",
     calm |-> "low", peaceful |-> "low", neutral |-> "medium",
     contemplative |-> "medium", reflective |-> "medium"]

\* a style chosen with the mood looked at before the rhythm
StyleMoodFirst(rhythm_type, mood) ==
    IF mood \in {"dramatic", "intense"} THEN "dramatic"
    ELSE IF mood \in {"mysterious", "ethereal"} THEN "mystical"
    ELSE IF rhythm_type \in {"iambic", "trochaic"} THEN "energetic"
    ELSE "calm"

\* lines 719-727
AnimationStyle(rhythm_type, mood) ==
    IF rhythm_type \in {"iambic", "trochaic"} THEN "energetic"
    ELSE IF mood \in {"dramatic", "intense"} THEN "dramatic"
    ELSE IF mood \in {"mysterious", "ethereal"} THEN "mystical"
    ELSE "calm"

\* None inside a JSON payload
JsonNull == "null"
\* a dict display {k1: v1, k2: v2}: the later entry wins on equal keys
Dict2(k1, v1, k2, v2) == Put(k1 :> v1, k2, v2)

transform_analysis_for_frontend(analysis, verb, adjective, noun) ==
    LET traditional == Get(analysis, "traditional", <<>>)
        rhythm == Get(analysis, "rhythm", <<>>)
        temporal == Get(analysis, "temporal", <<>>)
        rhyme == Get(analysis, "rhyme", <<>>)
        dominant_colors == Get(traditional, "dominant_colors", DefaultColors)
        gradient_colors == Get(Get(temporal, "background_suggestions", <<>>),
                               "gradient_colors", Take(dominant_colors, 3))
        emotion == Get(traditional, "emotion", "neutral")
        intensity == Get(intensity_map, emotion, "medium")
        rhythm_type == Get(rhythm, "rhythm_type", "free verse")
        mood == Get(traditional, "mood", "reflective")
        animation_timing == Get(rhythm, "animation_timing", <<>>)
        stagger_pattern == Get(animation_timing, "stagger_pattern", <<0, 15000, 30000, 45000>>)
        typography == Get(rhyme, "typography", <<>>)
        words == [verb |-> verb, adjective |-> adjective, noun |-> noun]
    IN  [themeAnalysis |->
            [emotional_tone |->
                [primary |-> emotion,
                 secondary |-> IF mood # emotion THEN mood ELSE JsonNull,
                 intensity |-> intensity,
                 scores |-> Dict2(emotion, 80, mood, IF mood # emotion THEN 60 ELSE 0)],
             themes |-> <<Get(traditional, "theme", "contemplative")>>,
             literary_devices |-> Get(Get(analysis, "metaphors", <<>>), "identified", <<>>),
             word_analysis |-> [original |-> words, enhanced |-> words,
                                transformation_quality |-> "moderate"]],
         visualRecommendations |->
            [colors |->
                [primary |-> IF Len(dominant_colors) > 0 THEN dominant_colors[1] ELSE "#6b7280",
                 secondary |-> IF Len(dominant_colors) > 1 THEN dominant_colors[2] ELSE "#9ca3af",
                 accent |-> IF Len(dominant_colors) > 2 THEN dominant_colors[3] ELSE "#d1d5db",
                 background |-> IF Len(dominant_colors) > 3 THEN dominant_colors[4] ELSE "#f3f4f6",
                 gradient |-> gradient_colors],
             typography |->
                [fontFamily |-> Get(typography, "font_style", "sans-serif"),
                 fontWeight |-> IF mood = "reflective" THEN "400" ELSE "500",
                 letterSpacing |-> "normal",
                 lineHeight |-> Get(typography, "line_spacing", 160),
                 fontSize |-> "medium"],
             animations |->
                [duration |-> Get(animation_timing, "base_duration", 200000),
                 easing |-> Get(animation_timing, "easing_function", "ease-out"),
                 stagger |-> IF Len(stagger_pattern) > 1 THEN stagger_pattern[2] ELSE 15000,
                 style |-> AnimationStyle(rhythm_type, mood)],
             layout |-> [style |-> "centered",
                         alignment |-> Get(typography, "text_alignment", "left"),
                         spacing |-> "normal"],
             effects |->
                [blur |-> mood \in {"ethereal", "dreamy", "mysterious"},
                 glow |-> emotion \in {"hopeful", "magical", "wonder", "love"},
                 shadow |-> intensity = "high" \/ mood \in {"dramatic", "intense"},
                 gradient |-> Len(gradient_colors) > 2]],
         poetryMetrics |->
            [readabilityScore |-> 85,
             emotionalImpact |-> IF intensity = "high" THEN 70 ELSE 50,
             creativityIndex |-> 75,
             coherenceScore |-> 90]]

(***************************************************************************)
(* extract_simple_theme_from_analysis (lines 813-873)                      *)
(***************************************************************************)
\* font names whose lower-cased form contains 'playful' or 'comic', and
\* 'elegant' or 'script'
PlayfulFonts == {"playful", "Comic Sans MS"}
ElegantFonts == {"elegant", "Brush Script"}

extract_simple_theme_from_analysis(analysis) ==
    LET visual_recs == Get(analysis, "visualRecommendations", <<>>)
        colors == Get(visual_recs, "colors", <<>>)
        animations == Get(visual_recs, "animations", <<>>)
        typography == Get(visual_recs, "typography", <<>>)
        gradient0 == Get(colors, "gradient", <<>>)
        gradient == IF Len(gradient0) < 2
                    THEN <<Get(colors, "primary", "#6b7280"),
                           Get(colors, "secondary", "#9ca3af"),
                           Get(colors, "accent", "#d1d5db")>>
                    ELSE gradient0
        font_family == Get(typography, "fontFamily", "sans-serif")
        typography_mood ==
            IF font_family \in {"serif", "Georgia", "Times"} THEN "classic"
            ELSE IF font_family \in PlayfulFonts THEN "playful"
            ELSE IF font_family \in ElegantFonts THEN "elegant"
            ELSE "modern"
        style0 == Get(animations, "style", "calm")
        animation_style == IF style0 \notin {"calm", "energetic", "dramatic", "mystical"}
                           THEN "calm" ELSE style0
    IN  [colors |-> [primary |-> Get(colors, "primary", "#6b7280"),
                     secondary |-> Get(colors, "secondary", "#9ca3af"),
                     accent |-> Get(colors, "accent", "#d1d5db"),
                     background |-> Get(colors, "background", "#f3f4f6"),
                     gradient |-> gradient],
         animations |-> [style |-> animation_style,
                         duration |-> Get(animations, "duration", 200000),
                         stagger |-> Get(animations, "stagger", 15000)],
         typography |-> [mood |-> typography_mood, scale |-> 100]]

\* create_poem_metadata (lines 875-915); t is the clock, uuid the draw of
\* uuid.uuid4()
create_poem_metadata(poem_data, verb, adjective, noun, t, uuid) ==
    LET poem_text == Get(poem_data, "poem", <<>>)
        theme_analysis == Get(Get(poem_data, "analysis", <<>>), "themeAnalysis", <<>>)
        primary_emotion == Get(Get(theme_analysis, "emotional_tone", <<>>),
                               "primary", "neutral")
    IN  [id |-> <<"poem", t \div TicksPerSecond, uuid>>,
         wordCount |-> 100 * CountWords(poem_text),
         sentiment |-> primary_emotion,
         emotion |-> primary_emotion,
         generationTime |-> 150]

\* poem_data['metadata'] = create_poem_metadata(poem_data, verb, adjective, noun)
AddMetadata(poem_data, w, t, uuid) ==
    Put(poem_data, "metadata",
        create_poem_metadata(poem_data, w.verb, w.adjective, w.noun, t, uuid))

\* poem_data with the transformed analysis, the theme extracted from it and
\* the metadata (lines 425-431, 566-571, 1093-1098)
WithTheme(poem_data, transformed, w, t, uuid) ==
    AddMetadata(Put(Put(poem_data, "analysis", transformed),
                    "theme", extract_simple_theme_from_analysis(transformed)),
                w, t, uuid)

\* the steps that end create_fallback_poem_data and
\* generate_enhanced_fallback_poem (lines 564-572, 1091-1101)
Assemble(poem, analysis_data, w, t, uuid) ==
    WithTheme([poem |-> poem],
              transform_analysis_for_frontend(analysis_data, w.verb, w.adjective, w.noun),
              w, t, uuid)

\* create_fallback_poem_data (lines 482-572); content is the model's text
create_fallback_poem_data(content, w, t, uuid) ==
    LET poem_lines == Take(NonEmptyLines(content), 12)
        analysis_data ==
            [rhyme |-> [scheme |-> "free verse", density |-> 0,
                        typography |-> [font_style |-> "sans-serif", line_spacing |-> 160,
                                        text_alignment |-> "left"]],
             metaphors |-> [identified |-> <<>>, visual_representations |-> <<>>],
             rhythm |-> [syllable_pattern |-> [i \in 1..12 |-> 800],
                         stress_pattern |-> "free",
                         rhythm_type |-> "free verse",
                         animation_timing |-> [base_duration |-> 200000,
                                               stagger_pattern |-> <<0, 15000, 30000, 45000>>,
                                               easing_function |-> "ease-out"]],
             temporal |-> [seasonal_hints |-> <<>>, time_of_day |-> "neutral",
                           temporal_keywords |-> <<>>,
                           background_suggestions |->
                                [gradient_colors |-> <<"#6b7280", "#9ca3af">>,
                                 particle_effects |-> "dust",
                                 lighting_mood |-> "neutral"]],
             reading_pace |-> [syllable_count |-> 150 * CountWords(poem_lines),
                               average_line_length |-> 800,
                               complexity_score |-> 50,
                               auto_scroll_timing |->
                                    [base_speed |-> 20000,
                                     pause_points |-> <<300, 700, 1100>>,
                                     speed_variations |-> [slow_sections |-> <<>>,
                                                           fast_sections |-> <<>>]]],
             accessibility |->
                [screen_reader_description |-> "A contemplative poem with abstract themes",
                 poem_summary |-> "A reflective piece exploring universal themes",
                 metaphor_explanations |-> <<>>,
                 emotional_context |-> "Contemplative and reflective mood",
                 visual_elements |-> "Minimal visual elements with focus on text"],
             traditional |-> [theme |-> "contemplative", mood |-> "reflective",
                              dominant_colors |-> DefaultColors,
                              emotion |-> "neutral", imagery_type |-> "abstract",
                              word_count |-> 100 * CountWords(poem_lines),
                              line_count |-> 100 * Len(poem_lines)],
             metadata |-> [analysis_confidence |-> 30,
                           processing_notes |-> "Fallback analysis due to parsing error"]]
    IN  Assemble(poem_lines, analysis_data, w, t, uuid)

\* lambda_function.extract_json_from_response (lines 458-480)
poem_extract_json_from_response(content) ==
    IF content.form \in {"object", "object_in_prose"} THEN Returned(content.obj)
    ELSE IF content.form = "scalar" THEN Returned(JsonScalar)
    ELSE Raised(Exception("Failed to parse Claude response as JSON"))

POEM_MODEL_ID == "anthropic.claude-3-5-haiku-20241022"

\* lines 416-431, on the data with its metadata and its colours converted
FinishModelData(poem_data, w, t, uuid) ==
    WithTheme(poem_data,
              transform_analysis_for_frontend(poem_data.analysis, w.verb, w.adjective, w.noun),
              w, t, uuid)

\* lines 400-431: what is done to a parsed answer that has
\* analysis.traditional.dominant_colors
ProcessModelData(obj, w, t, uuid) ==
    LET a1 == Put(obj.analysis, "metadata",
                  [generation_time |-> t, model_used |-> POEM_MODEL_ID, input_words |-> w])
        a2 == Put(a1, "traditional",
                  Put(obj.analysis.traditional, "dominant_colors",
                      convert_colors_to_hex(obj.analysis.traditional.dominant_colors)))
    IN  FinishModelData(validate_and_enhance_analysis(Put(obj, "analysis", a2)), w, t, uuid)

\* generate_poem_with_bedrock (lines 141-456): o is what
\* bedrock_client.invoke_model does, w the three words
generate_poem_with_bedrock(o, w, t, uuid) ==
    IF o.type = "ClientError"
    THEN Raised(Exception(
            CASE o.detail = "ThrottlingException" ->
                    "Service is currently busy. Please try again in a moment."
              [] o.detail = "ValidationException" ->
                    "Invalid request format. Please check your input."
              [] o.detail = "AccessDeniedException" ->
                    "Access denied to Bedrock service. Please check permissions."
              [] OTHER -> "Bedrock service error"))
    ELSE IF o.type = "BotoCoreError"
    THEN Raised(Exception("AWS service connection error. Please try again."))
    ELSE LET j == poem_extract_json_from_response(o)
             failed == Raised(Exception("Failed to generate poem. Please try again."))
         IN  IF j.status = "raised"
             THEN Returned(create_fallback_poem_data(o.lines, w, t, uuid))
             ELSE IF j.value = JsonScalar THEN failed                  \* TypeError, line 400
             ELSE IF "analysis" \notin DOMAIN j.value THEN failed       \* KeyError, line 400
             ELSE IF "traditional" \notin DOMAIN j.value.analysis THEN failed    \* line 412
             ELSE IF "dominant_colors" \notin DOMAIN j.value.analysis.traditional
                  THEN failed                                           \* line 412
             ELSE Returned(ProcessModelData(j.value, w, t, uuid))

(***************************************************************************)
(* generate_enhanced_fallback_poem (lines 917-1101)                        *)
(***************************************************************************)
NatureNouns == {"nature", "forest", "ocean", "mountain", "sky", "moon", "star", "sun",
                "flower", "tree"}
UrbanNouns == {"city", "street", "building", "light", "sound", "music", "car", "phone",
               "computer"}
emotion_map ==
    [dark |-> "mysterious", bright |-> "joyful", sad |-> "melancholy", happy |-> "euphoric",
     calm |-> "peaceful", wild |-> "energetic", gentle |-> "serene", fierce |-> "intense",
     ancient |-> "nostalgic", new |-> "hopeful", old |-> "contemplative", young |-> "vibrant",
     deep |-> "profound", light |-> "ethereal", heavy |-> "somber", soft |-> "tender"]
fallback_color_map ==
    [dark |-> <<"#2d3748", "#1a202c", "#4a5568">>, bright |-> <<"#fbbf24", "#f59e0b", "#d97706">>,
     blue |-> <<"#3182ce", "#2b77e0", "#1e40af">>, red |-> <<"#e53e3e", "#c53030", "#9b2c2c">>,
     green |-> <<"#38a169", "#2f855a", "#276749">>, purple |-> <<"#805ad5", "#6b46c1", "#553c9a">>,
     gold |-> <<"#d69e2e", "#b7791f", "#975a16">>, silver |-> <<"#a0aec0", "#718096", "#4a5568">>]

\* lines 984-989
SelectTemplate(noun) ==
    IF Str(noun) \in NatureNouns THEN poem_templates[1]
    ELSE IF Str(noun) \in UrbanNouns THEN poem_templates[2]
    ELSE poem_templates[3]

\* lines 1011-1017: the style the verb selects; the code only logs it
VerbStyle(verb) ==
    IF Str(verb) \in {"dance", "leap", "rush", "race", "fly"} THEN "energetic"
    ELSE IF Str(verb) \in {"whisper", "glide", "flow", "drift"} THEN "mystical"
    ELSE IF Str(verb) \in {"thunder", "crash", "roar", "strike"} THEN "dramatic"
    ELSE "calm"

\* (the accessibility section of analysis_data, five strings that nothing
\* reads, is left out)
generate_enhanced_fallback_poem(w, t, uuid) ==
    LET selected_poem == Render(SelectTemplate(w.noun), w)
        primary_emotion == Get(emotion_map, Str(w.adjective), "contemplative")
        colors == Get(fallback_color_map, Str(w.adjective), <<"#6b7280", "#9ca3af", "#d1d5db">>)
        analysis_data ==
            [rhyme |-> [scheme |-> "ABAB", density |-> 80,
                        typography |-> [font_style |-> "serif", line_spacing |-> 180,
                                        text_alignment |-> "left"]],
             metaphors |->
                [identified |->
                    <<[line |-> 100, text |-> Str(w.adjective) \o " light", type |-> "visual"],
                      [line |-> 300, text |-> Str(w.noun) \o " speaks", type |-> "conceptual"]>>,
                 visual_representations |->
                    <<[metaphor |-> Str(w.adjective) \o " light", icon |-> "sun",
                       color |-> colors[1], animation |-> "glow"]>>],
             rhythm |-> [syllable_pattern |-> [i \in 1..12 |-> 800],
                         stress_pattern |-> "iambic",
                         rhythm_type |-> "iambic tetrameter",
                         animation_timing |-> [base_duration |-> 250000,
                                               stagger_pattern |-> <<0, 20000, 40000, 60000>>,
                                               easing_function |-> "ease-in-out"]],
             temporal |-> [seasonal_hints |-> <<"eternal">>, time_of_day |-> "dawn",
                           temporal_keywords |-> <<"dawn", "before", "forever">>,
                           background_suggestions |->
                                [gradient_colors |-> Take(colors, 2),
                                 particle_effects |-> "sparkles",
                                 lighting_mood |-> "warm"]],
             reading_pace |-> [syllable_count |-> 9600, average_line_length |-> 800,
                               complexity_score |-> 70,
                               auto_scroll_timing |->
                                    [base_speed |-> 18000,
                                     pause_points |-> <<400, 800, 1200>>,
                                     speed_variations |-> [slow_sections |-> <<100, 900>>,
                                                           fast_sections |-> <<500>>]]],
             traditional |-> [theme |-> primary_emotion \o " reflection",
                              mood |-> primary_emotion,
                              dominant_colors |-> colors,
                              emotion |-> primary_emotion,
                              imagery_type |-> "lyrical",
                              word_count |-> 100 * CountWords(selected_poem),
                              line_count |-> 1200],
             metadata |-> [analysis_confidence |-> 90,
                           processing_notes |->
                                "Enhanced fallback with dynamic word-based generation"]]
    IN  Assemble(selected_poem, analysis_data, w, t, uuid)

\* get_cached_poem (lines 1103-1127); fails: table.get_item raises
get_cached_poem(st, cache_key, t, fails) ==
    IF fails THEN None
    ELSE IF /\ cache_key \in DOMAIN st
            /\ "ttl" \in DOMAIN st[cache_key]
            /\ st[cache_key].ttl * TicksPerSecond > t
         THEN st[cache_key].poem_data
         ELSE None

\* the item cache_poem puts (lines 1141-1150); int() truncates to seconds
PoemItem(cache_key, poem_data, t) ==
    [cache_key |-> cache_key,
     poem_data |-> poem_data,
     ttl |-> (t + 86400 * TicksPerSecond) \div TicksPerSecond,
     created_at |-> t]

\* line 70: f"{verb}-{adjective}-{noun}"
PoemKey(w) == Str(w.verb) \o "-" \o Str(w.adjective) \o "-" \o Str(w.noun)

(***************************************************************************)
(* What the generation endpoint is given.                                  *)
(***************************************************************************)
\* stripped, lower-case request words; the second verb holds a line break
PoemInputs ==
    {[verb |-> <<"dance">>, adjective |-> <<"golden">>, noun |-> <<"leaves">>],
     [verb |-> <<"whisper", "now">>, adjective |-> <<"dark">>, noun |-> <<"moon">>]}

\* the draws of uuid.uuid4()
Uuids == {"uuid_1", "uuid_2"}

\* a model text of ContentLines lines, every fifth one blank
LongContent == [i \in 1..ContentLines |-> IF i % 5 = 0 THEN <<>> ELSE <<"verse", "line">>]
ShortContent == << <<"Sorry,", "{no", "poem}">> >>

\* a JSON answer in the format of the prompt, with values outside the ranges
\* and colour names in several spellings
PoemFull ==
    [poem |-> [i \in 1..12 |-> <<"model", "line">>],
     analysis |->
        [rhyme |-> [scheme |-> "ABAB", density |-> 130,
                    typography |-> [font_style |-> "serif", line_spacing |-> 250,
                                    text_alignment |-> "center"]],
         metaphors |-> [identified |-> <<>>, visual_representations |-> <<>>],
         rhythm |-> [rhythm_type |-> "iambic",
                     animation_timing |-> [base_duration |-> 1000000,
                                           stagger_pattern |-> <<0, 200000>>,
                                           easing_function |-> "ease-in"]],
         temporal |-> [background_suggestions |->
                            [gradient_colors |-> <<"gold", "navy", "#FF0000">>]],
         reading_pace |-> [complexity_score |-> 0,
                           auto_scroll_timing |-> [base_speed |-> 5000,
                                                   pause_points |-> <<0, 700, 1500>>]],
         traditional |-> [theme |-> "joy", mood |-> "dramatic",
                          dominant_colors |-> <<"RED", " Blue ", "teal", "mauve">>,
                          emotion |-> "excited"]]]
PoemNoAnalysis == [poem |-> PoemFull.poem]
PoemNoTraditional == [poem |-> PoemFull.poem, analysis |-> [rhyme |-> PoemFull.analysis.rhyme]]

PoemText(form, obj, lines) == [type |-> "text", form |-> form, obj |-> obj, lines |-> lines]
PoemTexts ==
    {PoemText("prose", NoValue, LongContent), PoemText("broken", NoValue, ShortContent),
     PoemText("scalar", JsonScalar, <<>>),
     PoemText("object", PoemFull, <<>>), PoemText("object", PoemNoAnalysis, <<>>),
     PoemText("object_in_prose", PoemNoTraditional, <<>>)}
PoemModelOutcomes == ModelFailures \cup PoemTexts

(***************************************************************************)
(* lambda_function.lambda_handler (lines 22-112), for a valid body.        *)
(***************************************************************************)
\* lines 52-70: parse, validate, strip and lower, key
PoemReceive(r) ==
    /\ endpoint = "poem"
    /\ CanStart(r)
    /\ \E w \in PoemInputs :
        req' = Start(r, [IdleReq EXCEPT !.pc = "cache_read", !.input = w, !.at = now,
                                        !.cache_key = PoemKey(w)])
    /\ UNCHANGED <<san_in, san_out, endpoint, now, store>>

\* lines 73-84
PoemCacheRead(r) ==
    /\ endpoint = "poem"
    /\ req[r].pc = "cache_read"
    /\ \E fails \in BOOLEAN :
        LET cached_result == get_cached_poem(store, req[r].cache_key, now, fails)
        IN  req' = [req EXCEPT ![r] =
                IF Truthy(cached_result)
                THEN [@ EXCEPT !.pc = "done", !.resp = create_response(cached_result, TRUE)]
                ELSE [@ EXCEPT !.pc = "model", !.read_failed = fails,
                               !.store_failed = fails]]
    /\ UNCHANGED <<san_in, san_out, endpoint, now, store>>

\* lines 87-93: the one call of generate_poem_with_bedrock, and the fallback
\* generator when it raises
PoemGenerate(r) ==
    /\ endpoint = "poem"
    /\ req[r].pc = "model"
    /\ \E o \in PoemModelOutcomes, uuid \in Uuids :
      \E res \in {generate_poem_with_bedrock(o, req[r].input, now, uuid)} :
        req' = [req EXCEPT ![r] =
            [@ EXCEPT !.pc = "cache_write", !.ncalls = @ + 1,
                      !.seen = @ \cup {Class(o)},
                      !.model_json = @ /\ Class(o) = "json",
                      !.last = res,
                      !.result = IF res.status = "returned" THEN res
                                 ELSE Returned(generate_enhanced_fallback_poem(
                                                    req[r].input, now, uuid))]]
    /\ UNCHANGED <<san_in, san_out, endpoint, now, store>>

\* a handler that lets a failed cache write fail the request
PoemCacheWriteFatal(r) ==
    /\ endpoint = "poem"
    /\ req[r].pc = "cache_write"
    /\ \E fails \in BOOLEAN :
        /\ store' = IF fails THEN store
                    ELSE Put(store, req[r].cache_key,
                             PoemItem(req[r].cache_key, req[r].result.value, now))
        /\ req' = [req EXCEPT ![r] =
                [@ EXCEPT !.pc = "done", !.write_failed = fails,
                          !.store_failed = @ \/ fails,
                          !.writes = IF fails THEN @ ELSE @ + 1,
                          !.resp = IF fails THEN create_error_response(500, "INTERNAL_ERROR")
                                   ELSE create_response(req[r].result.value, FALSE)]]
    /\ UNCHANGED <<san_in, san_out, endpoint, now>>

\* lines 96-108: cache_poem (lines 1129-1156), then the response
PoemCacheWrite(r) ==
    /\ endpoint = "poem"
    /\ req[r].pc = "cache_write"
    /\ \E fails \in BOOLEAN :
        /\ store' = IF fails THEN store
                    ELSE Put(store, req[r].cache_key,
                             PoemItem(req[r].cache_key, req[r].result.value, now))
        /\ req' = [req EXCEPT ![r] =
                [@ EXCEPT !.pc = "done", !.write_failed = fails,
                          !.store_failed = @ \/ fails,
                          !.writes = IF fails THEN @ ELSE @ + 1,
                          !.resp = create_response(req[r].result.value, FALSE)]]
    /\ UNCHANGED <<san_in, san_out, endpoint, now>>

(***************************************************************************)
(* Spec: the two handlers serving MaxReq requests one after the other, and *)
(* analyze_theme_with_retry on its own.                                    *)
(***************************************************************************)
Init ==
    /\ san_in = NoValue
    /\ san_out = NotRun
    /\ endpoint \in {"theme", "retry", "poem"}
    /\ now = 0
    /\ store = <<>>
    /\ req = [r \in Reqs |-> IdleReq]

Next ==
    \/ Tick
    \/ \E r \in Reqs : ThemeReceive(r)
    \/ \E r \in Reqs : ThemeCacheRead(r)
    \/ \E r \in Reqs : ThemeAttempt(r)
    \/ \E r \in Reqs : Sleep(r)
    \/ \E r \in Reqs : ThemeCacheWrite(r)
    \/ \E r \in Reqs : RetryStart(r)
    \/ \E r \in Reqs : RetryAttempt(r)
    \/ \E r \in Reqs : PoemReceive(r)
    \/ \E r \in Reqs : PoemCacheRead(r)
    \/ \E r \in Reqs : PoemGenerate(r)
    \/ \E r \in Reqs : PoemCacheWrite(r)

Spec == Init /\ [][Next]_vars

(***************************************************************************)
(* C1: whenever validate_and_sanitize_analysis returns, every numeric      *)
(* field of the returned object lies in its interval (intensity [0,1],     *)
(* duration [500,5000], stagger_delay [50,500], font_weight [300,900],     *)
(* font_scale [0.8,1.5], line_height [1.2,2.0], letter_spacing             *)
(* [-0.05,0.2], text_shadow [0,4], spacing_scale [0.8,1.4], border_radius  *)
(* [0,20], backdrop_blur [0,20], gradient_angle [0,360), palette weights   *)
(* and opacities [0.1,1.0]); 450 degrees become 90; the opacity and        *)
(* palette lists keep their length and order.                              *)
(***************************************************************************)
Within(d, k, lo, hi) == k \in DOMAIN d /\ lo <= d[k] /\ d[k] <= hi
Nearest(lo, hi, v) == IF v < lo THEN lo ELSE IF v > hi THEN hi ELSE v

RangesHold(in, out) ==
    /\ DOMAIN out = DOMAIN in
    /\ ("emotion" \in DOMAIN in /\ "intensity" \in DOMAIN in.emotion)
            => Within(out.emotion, "intensity", 0, 100)
    /\ ("animation" \in DOMAIN in /\ "timing" \in DOMAIN in.animation)
            => /\ Within(out.animation.timing, "duration", 50000, 500000)
               /\ Within(out.animation.timing, "stagger_delay", 5000, 50000)
    /\ "typography" \in DOMAIN in
            => /\ Within(out.typography, "font_weight", 30000, 90000)
               /\ Within(out.typography, "font_scale", 80, 150)
               /\ Within(out.typography, "line_height", 120, 200)
               /\ Within(out.typography, "letter_spacing", -5, 20)
               /\ Within(out.typography, "text_shadow", 0, 400)
    /\ "layout" \in DOMAIN in
            => /\ Within(out.layout, "spacing_scale", 80, 140)
               /\ Within(out.layout, "border_radius", 0, 2000)
               /\ Within(out.layout, "backdrop_blur", 0, 2000)
               /\ Within(out.layout, "gradient_angle", 0, 35999)
               /\ "opacity_variations" \in DOMAIN in.layout
                    => /\ Len(out.layout.opacity_variations) = Len(in.layout.opacity_variations)
                       /\ \A i \in DOMAIN in.layout.opacity_variations :
                            out.layout.opacity_variations[i]
                                = Nearest(10, 100, in.layout.opacity_variations[i])
    /\ ("colors" \in DOMAIN in /\ "palette" \in DOMAIN in.colors)
            => /\ Len(out.colors.palette) = Len(in.colors.palette)
               /\ \A i \in DOMAIN in.colors.palette :
                    /\ out.colors.palette[i].hex = in.colors.palette[i].hex
                    /\ "weight" \in DOMAIN in.colors.palette[i]
                         => out.colors.palette[i].weight
                                = Nearest(10, 100, in.colors.palette[i].weight)

C2_SanitizerTotal == san_out.status # "raised"

(***************************************************************************)
(* C3: in the theme-analysis endpoint a model answer without a parsable    *)
(* JSON object ends the request with HTTP 200, success:true and the fixed  *)
(* fallback analysis as data; it is the only model call of the request.    *)
(***************************************************************************)
C3_ParseFailureAnswered ==
    \A r \in Reqs :
        (endpoint = "theme" /\ "unparsable" \in req[r].seen)
            => /\ req[r].ncalls = 1
               /\ req[r].pc \in {"cache_write", "done"}
               /\ req[r].pc = "done"
                    => /\ req[r].resp.statusCode = 200
                       /\ req[r].resp.success
                       /\ \A k \in DOMAIN FallbackDisplay \ {"metadata"} :
                            /\ k \in DOMAIN req[r].resp.data
                            /\ req[r].resp.data[k] = FallbackDisplay[k]

(***************************************************************************)
(* C5: analyze_theme_with_retry makes at most MAX_RETRIES = 3 attempts,    *)
(* one after the other; it sleeps exactly once between two consecutive     *)
(* attempts; no attempt follows a success; what it returns or raises is    *)
(* the outcome of its last attempt.                                        *)
(***************************************************************************)
C5_BoundedRetry ==
    \A r \in Reqs :
        endpoint \in {"retry", "theme"}
            => /\ req[r].ncalls <= MAX_RETRIES
               /\ req[r].pc = "model" => Len(req[r].sleeps) = req[r].ncalls
               /\ req[r].pc = "sleep" => Len(req[r].sleeps) = req[r].ncalls - 1
               /\ (req[r].pc \in {"cache_write", "done"} /\ req[r].ncalls > 0)
                    => Len(req[r].sleeps) = req[r].ncalls - 1
               /\ req[r].pc \in {"model", "sleep"} => req[r].result = NotRun
               /\ endpoint = "retry"
                    => /\ req[r].pc \in {"model", "sleep"} => "json" \notin req[r].seen
                       /\ req[r].pc = "done" => req[r].result = req[r].last

\* three throttled attempts: two sleeps, then the ThrottlingException is raised
C5_Witness ==
    \E r \in Reqs :
        /\ endpoint = "retry"
        /\ req[r].pc = "done"
        /\ req[r].ncalls = 3
        /\ Len(req[r].sleeps) = 2
        /\ req[r].result = Raised(ClientError("ThrottlingException"))

(***************************************************************************)
(* C6: in a theme-analysis request, a model call rejected with             *)
(* ValidationException or AccessDeniedException is the only model call of  *)
(* the request and no backoff sleep is made.                               *)
(***************************************************************************)
C6_RejectedNotRetried ==
    \A r \in Reqs :
        (endpoint = "theme" /\ "rejected" \in req[r].seen)
            => /\ req[r].ncalls = 1
               /\ req[r].sleeps = <<>>
               /\ req[r].pc = "done"

(***************************************************************************)
(* C7: the n-th sleep of a retry loop lasts at least BASE_DELAY * 2^(n-1)  *)
(* seconds, includes a jitter term whatever the failure kind, and lasts at *)
(* most MAX_DELAY seconds.                                                 *)
(***************************************************************************)
C7_BackoffWithJitter ==
    \A r \in Reqs :
        \A n \in DOMAIN req[r].sleeps :
            /\ req[r].sleeps[n].delay >= 100 * BASE_DELAY * (2 ^ (n - 1))
            /\ req[r].sleeps[n].jitter
            /\ req[r].sleeps[n].delay <= 100 * MAX_DELAY

(***************************************************************************)
(* C4: when every model attempt of a request fails, the poem-generation    *)
(* handler answers HTTP 200, success:true, cached:false with the record of *)
(* the fallback generator for the request's words; the theme-analysis      *)
(* handler answers HTTP 500 INTERNAL_ERROR and makes no cache write.       *)
(***************************************************************************)
ModelFailed(rec) ==
    rec.pc = "done" /\ rec.ncalls > 0 /\ rec.seen \subseteq {"retryable", "rejected"}

C4_ModelFailureHandling ==
    \A r \in Reqs :
        ModelFailed(req[r])
            => /\ endpoint = "poem"
                    => /\ req[r].resp.statusCode = 200
                       /\ req[r].resp.success
                       /\ ~req[r].resp.cached
                       /\ \E uuid \in Uuids :
                            req[r].resp.data =
                                generate_enhanced_fallback_poem(req[r].input, req[r].at, uuid)
               /\ endpoint = "theme"
                    => /\ req[r].resp.statusCode = 500
                       /\ ~req[r].resp.success
                       /\ req[r].resp.code = "INTERNAL_ERROR"
                       /\ req[r].resp.data = NoValue
                       /\ req[r].writes = 0
                       /\ ~req[r].write_failed

\* a generation request whose model call was throttled has been answered
C4_Witness ==
    \E r \in Reqs :
        /\ endpoint = "poem"
        /\ ModelFailed(req[r])
        /\ req[r].last = Raised(Exception(
                "Service is currently busy. Please try again in a moment."))
        /\ req[r].resp.statusCode = 200
        /\ req[r].writes = 1

(***************************************************************************)
(* C8: in the poem-generation handler a model call that fails with a       *)
(* throttling or transient error is followed by another model call before  *)
(* the fallback generator is used.                                         *)
(***************************************************************************)
C8_PoemModelRetried ==
    \A r \in Reqs :
        (/\ endpoint = "poem"
         /\ req[r].pc \in {"cache_write", "done"}
         /\ "retryable" \in req[r].seen)
            => req[r].ncalls >= 2

(***************************************************************************)
(* C9: a valid generation request whose model answer is malformed text, or *)
(* JSON without the analysis or traditional sub-object, is answered HTTP   *)
(* 200, success:true, with data holding poem, analysis, theme and          *)
(* metadata, at most 12 non-empty poem lines, and an animation style among *)
(* calm, energetic, dramatic, mystical.                                    *)
(***************************************************************************)
C9_UnparsableAnswerServed ==
    \A r \in Reqs :
        (/\ endpoint = "poem"
         /\ req[r].pc = "done"
         /\ \/ req[r].seen = {"unparsable"}
            \/ req[r].seen = {"json"} /\ req[r].last.status = "raised")
            => /\ req[r].resp.statusCode = 200
               /\ req[r].resp.success
               /\ {"poem", "analysis", "theme", "metadata"} \subseteq DOMAIN req[r].resp.data
               /\ req[r].resp.data.theme.animations.style
                    \in {"calm", "energetic", "dramatic", "mystical"}
               /\ Len(NonEmptyLines(req[r].resp.data.poem)) <= 12

(***************************************************************************)
(* C10: with a working store and a model that answers valid JSON, of two   *)
(* identical requests served one after the other within the TTL the first  *)
(* is answered HTTP 200 cached:false, the second HTTP 200 cached:true with *)
(* the same data, and the second makes no model call and no cache write.   *)
(***************************************************************************)
C10_SecondRequestCached ==
    \A r1, r2 \in Reqs :
        (/\ endpoint \in {"theme", "poem"}
         /\ r2 = r1 + 1
         /\ req[r1].pc = "archived"
         /\ req[r2].pc = "done"
         /\ req[r2].input = req[r1].input
         /\ req[r2].at - req[r1].at < TtlTicks
         /\ ~req[r1].store_failed /\ ~req[r2].store_failed
         /\ req[r1].model_json /\ req[r2].model_json)
            => /\ req[r1].resp.statusCode = 200
               /\ ~req[r1].resp.cached
               /\ req[r2].resp.statusCode = 200
               /\ req[r2].resp.cached
               /\ req[r2].ncalls = 0
               /\ req[r2].writes = 0
               /\ req[r2].resp.data = req[r1].resp.data


(***************************************************************************)
(* The cache functions on their own: cache_analysis / get_cached_analysis, *)
(* cache_poem / get_cached_poem (DynamoDB table) and RedisCacheManager.set *)
(* / .get (redis_cache.py).  endpoint names the cache, store is its        *)
(* content, now the clock, req the calls made so far.                      *)
(***************************************************************************)
MaxOps == 3             \* calls and clock steps in one behaviour

Caches == {"analysis", "poem", "redis"}
CacheKeys == {"k1", "k2"}
\* payloads: JSON-native dicts, and one holding a datetime
JsonValues == {[metadata |-> [poem_hash |-> "h1"]], [poem |-> [text |-> "p2"]]}
PyValues == {[created |-> [py |-> "datetime", iso |-> "2024-01-01"]]}

\* --- redis_cache.py ---
cache_prefix == "wordweave:"
default_ttl == 3600
default_max_size == 100
cache_configs ==
    [poem |-> [ttl |-> 24 * 3600, max_size |-> 1000],
     theme_analysis |-> [ttl |-> 12 * 3600, max_size |-> 500],
     user_preferences |-> [ttl |-> 7 * 24 * 3600, max_size |-> 100],
     popular_words |-> [ttl |-> 3600, max_size |-> 50]]
\* self.cache_configs.get(cache_type, {})
ConfigOf(cache_type) == IF cache_type \in DOMAIN cache_configs
                        THEN cache_configs[cache_type] ELSE <<>>
\* the cache types of the calls: two configured ones and one that is not
CacheTypes == {"poem", "popular_words", "session"}

\* hashlib.md5(identifier.encode()).hexdigest(): collision-free on CacheKeys
md5(x) == <<"md5", x>>
\* RedisCacheManager.generate_cache_key (lines 66-70)
redis_generate_cache_key(cache_type, identifier) ==
    <<cache_prefix, cache_type, md5(identifier)>>

\* json.dumps(data, default=str): what JSON cannot hold is written as str(x)
json_dumps(data) ==
    [json |-> [k \in DOMAIN data |->
                  IF "py" \in DOMAIN data[k] THEN [str |-> data[k].iso] ELSE data[k]]]
\* json.loads(text)
json_loads(text) == text.json

\* The Redis server: keys maps a key to its value and the tick at which it
\* expires; filler[c] stands for count further keys of cache type c, all
\* expiring at the same tick, whose identifiers no call of the model uses.
RedisLive(e, t) == t < e.exp
LiveKeysOf(st, cache_type, t) ==
    {k \in DOMAIN st.keys : k[2] = cache_type /\ RedisLive(st.keys[k], t)}
FillerCount(st, cache_type, t) ==
    IF RedisLive(st.filler[cache_type], t) THEN st.filler[cache_type].count ELSE 0
\* connection.ttl(key): the remaining time in seconds, rounded to the nearest
RedisTtl(e, t) == ((e.exp - t) * (1000 \div TicksPerSecond) + 500) \div 1000
\* connection.setex(key, cache_ttl, serialized_data)
RedisSetex(st, key, cache_ttl, serialized_data, t) ==
    [st EXCEPT !.keys = Put(@, key, [value |-> serialized_data,
                                     exp |-> t + cache_ttl * TicksPerSecond])]

\* the store after connection.delete of the keys X and of j filler keys
RedisDelete(st, cache_type, X, j) ==
    [keys |-> [k \in DOMAIN st.keys \ X |-> st.keys[k]],
     filler |-> [st.filler EXCEPT ![cache_type].count = @ - j]]

\* key_ttls.sort(key=lambda x: x[1]); key_ttls[:m]: X and j filler keys can be
\* the first m of the sorted list iff no kept key has a smaller ttl than a
\* removed one (connection.keys returns the keys in any order, the sort is
\* stable)
FirstOfSorted(st, cache_type, E, n, X, j, t) ==
    /\ \A x \in X, y \in E \ X : RedisTtl(st.keys[x], t) <= RedisTtl(st.keys[y], t)
    /\ j > 0 => \A y \in E \ X :
                    RedisTtl(st.filler[cache_type], t) <= RedisTtl(st.keys[y], t)
    /\ j < n => \A x \in X :
                    RedisTtl(st.keys[x], t) <= RedisTtl(st.filler[cache_type], t)

CleanupChoices(st, cache_type, E, n, m, t) ==
    IF m <= 0 THEN {st}
    ELSE {RedisDelete(st, cache_type, c[1], c[2]) :
            c \in {d \in (SUBSET E) \X (0..Min(n, m)) :
                     /\ Cardinality(d[1]) + d[2] = m
                     /\ FirstOfSorted(st, cache_type, E, n, d[1], d[2], t)}}

\* a set that never cleans up
NoCleanup(st, cache_type, t) == {st}

\* RedisCacheManager._cleanup_cache (lines 185-207): the stores it can leave
cleanup_cache(st, cache_type, t) ==
    CleanupChoices(st, cache_type, LiveKeysOf(st, cache_type, t),
                   FillerCount(st, cache_type, t),
                   Cardinality(LiveKeysOf(st, cache_type, t))
                       + FillerCount(st, cache_type, t)
                       - Get(ConfigOf(cache_type), "max_size", default_max_size),
                   t)

\* ttl or self.cache_configs.get(cache_type, {}).get('ttl', self.default_ttl)
CacheTtl(cache_type, ttl) ==
    IF ttl # None /\ ttl.sec # 0 THEN ttl.sec
    ELSE Get(ConfigOf(cache_type), "ttl", default_ttl)

\* RedisCacheManager.set (lines 91-119): the results it can have, each with
\* the store it leaves.  fails: the connection raises.  setex rejects an
\* expire time that is not positive; both end in `return False`.
redis_set(st, cache_type, identifier, data, ttl, t, fails) ==
    IF fails \/ CacheTtl(cache_type, ttl) <= 0
    THEN {[result |-> FALSE, store |-> st]}
    ELSE {[result |-> TRUE, store |-> s] :
            s \in cleanup_cache(
                    RedisSetex(st, redis_generate_cache_key(cache_type, identifier),
                               CacheTtl(cache_type, ttl), json_dumps(data), t),
                    cache_type, t)}

\* RedisCacheManager.get (lines 72-89)
redis_get(st, cache_type, identifier, t, fails) ==
    IF fails THEN None
    ELSE IF /\ redis_generate_cache_key(cache_type, identifier) \in DOMAIN st.keys
            /\ RedisLive(st.keys[redis_generate_cache_key(cache_type, identifier)], t)
         THEN json_loads(st.keys[redis_generate_cache_key(cache_type, identifier)].value)
         ELSE None

\* the ttl arguments of set: None (the default), 0, one second, a negative one
TtlArgs == {None, [sec |-> 0], [sec |-> 1], [sec |-> -1]}

\* --- the DynamoDB table ---
\* cache_analysis (theme_analyzer.py lines 568-596); fails: put_item raises,
\* and the function raises in turn (result FALSE)
cache_analysis(st, cache_key, analysis_data, t, fails) ==
    IF fails THEN [result |-> FALSE, store |-> st]
    ELSE [result |-> TRUE,
          store |-> Put(st, cache_key, ThemeItem(cache_key, analysis_data, t))]
\* cache_poem (lambda_function.py lines 1129-1156)
cache_poem(st, cache_key, poem_data, t, fails) ==
    IF fails THEN [result |-> FALSE, store |-> st]
    ELSE [result |-> TRUE, store |-> Put(st, cache_key, PoemItem(cache_key, poem_data, t))]

\* items found in the table at the start: none, one without ttl, one whose
\* ttl is second 1
OldItems(payload_key) ==
    {[cache_key |-> "k1"] @@ (payload_key :> v) @@ x :
        v \in JsonValues, x \in {<<>>, [ttl |-> 1]}}
InitStores(cache) ==
    IF cache = "redis"
    THEN {[keys |-> <<>>,
           filler |-> [c \in CacheTypes |->
                          [count |-> IF c \in F
                                     THEN Get(ConfigOf(c), "max_size", default_max_size)
                                     ELSE 0,
                           exp |-> e]]] :
            F \in {{}, {"popular_words"}, CacheTypes},
            e \in {1800 * TicksPerSecond}}
    ELSE {<<>>} \cup {("k1" :> i) :
                        i \in OldItems(IF cache = "analysis" THEN "analysis_data"
                                       ELSE "poem_data")}

\* the ticks at which something stored expires
Expiries ==
    IF endpoint = "redis"
    THEN {store.keys[k].exp : k \in DOMAIN store.keys}
            \cup {store.filler[c].exp : c \in DOMAIN store.filler}
    ELSE {store[k].ttl * TicksPerSecond : k \in {x \in DOMAIN store : "ttl" \in DOMAIN store[x]}}

\* the record of a call
PutRec(cache_type, key, value, ttl, t, ok, exp) ==
    [op |-> "put", cache_type |-> cache_type, key |-> key, value |-> value, ttl |-> ttl,
     at |-> t, ok |-> ok, out |-> None, exp |-> exp]
GetRec(cache_type, key, t, ok, out) ==
    [op |-> "get", cache_type |-> cache_type, key |-> key, value |-> None, ttl |-> None,
     at |-> t, ok |-> ok, out |-> out, exp |-> 0]
Logged(rec) == [ops |-> req.ops + 1, hist |-> Append(req.hist, rec)]

InitCache ==
    /\ san_in = NoValue
    /\ san_out = NotRun
    /\ endpoint \in Caches
    /\ now \in {0, 1}
    /\ store \in InitStores(endpoint)
    /\ req = [ops |-> 0, hist |-> <<>>]

CacheTick ==
    /\ req.ops < MaxOps
    /\ \E t \in {now + 1} \cup Expiries \cup {e - 1 : e \in Expiries} :
        /\ t > now
        /\ now' = t
    /\ req' = [req EXCEPT !.ops = @ + 1]
    /\ UNCHANGED <<san_in, san_out, endpoint, store>>

AnalysisPut ==
    /\ endpoint = "analysis"
    /\ req.ops < MaxOps
    /\ \E k \in CacheKeys, v \in JsonValues, fails \in BOOLEAN :
        \E o \in {cache_analysis(store, k, v, now, fails)} :
            /\ store' = o.store
            /\ req' = Logged(PutRec("-", k, v, None, now, o.result,
                                    IF o.result THEN o.store[k].ttl * TicksPerSecond ELSE 0))
    /\ UNCHANGED <<san_in, san_out, endpoint, now>>

AnalysisGet ==
    /\ endpoint = "analysis"
    /\ req.ops < MaxOps
    /\ \E k \in CacheKeys, fails \in BOOLEAN :
        req' = Logged(GetRec("-", k, now, ~fails, get_cached_analysis(store, k, now, fails)))
    /\ UNCHANGED <<san_in, san_out, endpoint, now, store>>

PoemPut ==
    /\ endpoint = "poem"
    /\ req.ops < MaxOps
    /\ \E k \in CacheKeys, v \in JsonValues, fails \in BOOLEAN :
        \E o \in {cache_poem(store, k, v, now, fails)} :
            /\ store' = o.store
            /\ req' = Logged(PutRec("-", k, v, None, now, o.result,
                                    IF o.result THEN o.store[k].ttl * TicksPerSecond ELSE 0))
    /\ UNCHANGED <<san_in, san_out, endpoint, now>>

PoemGet ==
    /\ endpoint = "poem"
    /\ req.ops < MaxOps
    /\ \E k \in CacheKeys, fails \in BOOLEAN :
        req' = Logged(GetRec("-", k, now, ~fails, get_cached_poem(store, k, now, fails)))
    /\ UNCHANGED <<san_in, san_out, endpoint, now, store>>

\* (the log keeps the ttl argument of the calls that succeeded)
RedisSet ==
    /\ endpoint = "redis"
    /\ req.ops < MaxOps
    /\ \E c \in CacheTypes, k \in CacheKeys, v \in JsonValues \cup PyValues,
          ttl \in TtlArgs, fails \in BOOLEAN :
        \E o \in redis_set(store, c, k, v, ttl, now, fails) :
            /\ store' = o.store
            /\ req' = Logged(PutRec(c, k, v, IF o.result THEN ttl ELSE None, now, o.result,
                                    IF o.result
                                    THEN now + CacheTtl(c, ttl) * TicksPerSecond ELSE 0))
    /\ UNCHANGED <<san_in, san_out, endpoint, now>>

RedisGet ==
    /\ endpoint = "redis"
    /\ req.ops < MaxOps
    /\ \E c \in CacheTypes, k \in CacheKeys, fails \in BOOLEAN :
        req' = Logged(GetRec(c, k, now, ~fails, redis_get(store, c, k, now, fails)))
    /\ UNCHANGED <<san_in, san_out, endpoint, now, store>>

NextCache ==
    \/ CacheTick
    \/ AnalysisPut
    \/ AnalysisGet
    \/ PoemPut
    \/ PoemGet
    \/ RedisSet
    \/ RedisGet

SpecCache == InitCache /\ [][NextCache]_vars


(***************************************************************************)
(* C11: in each of the three caches, after a put of a JSON value v under   *)
(* key k that succeeded against a working store, a get of k made at once   *)
(* returns v, and a get of k made once the entry's expiry has passed (no   *)
(* other put of k in between) returns absent.                              *)
(***************************************************************************)
SameEntry(p, g) == g.cache_type = p.cache_type /\ g.key = p.key
PutThenGet(i, j) ==
    /\ i < j
    /\ req.hist[i].op = "put" /\ req.hist[i].ok
    /\ req.hist[i].value \in JsonValues
    /\ req.hist[j].op = "get" /\ req.hist[j].ok
    /\ SameEntry(req.hist[i], req.hist[j])
    /\ \A m \in (i + 1)..(j - 1) :
            ~(req.hist[m].op = "put" /\ req.hist[m].ok /\ SameEntry(req.hist[i], req.hist[m]))

C11_CacheRoundTrip ==
    \A i, j \in DOMAIN req.hist :
        PutThenGet(i, j)
            => /\ (j = i + 1 /\ req.hist[j].at = req.hist[i].at)
                    => req.hist[j].out = req.hist[i].value
               /\ req.hist[j].at >= req.hist[i].exp => req.hist[j].out = None

(***************************************************************************)
(* C12: against a working table, get_cached_analysis and get_cached_poem   *)
(* return the stored payload exactly when the item exists and its ttl is   *)
(* strictly greater than the current time, and report absent otherwise     *)
(* (ttl in the past, equal to now, or missing); the read leaves the table  *)
(* as it was.                                                              *)
(***************************************************************************)
LastCall == req.hist[Len(req.hist)]
JustRead ==
    /\ endpoint \in {"analysis", "poem"}
    /\ req.hist # <<>>
    /\ LastCall.op = "get" /\ LastCall.ok /\ LastCall.at = now
Unexpired(item) == "ttl" \in DOMAIN item /\ item.ttl * TicksPerSecond > now
PayloadOf(item) == IF endpoint = "analysis" THEN item.analysis_data ELSE item.poem_data
ReadIsLazyExpiry ==
    JustRead
        => LastCall.out = IF LastCall.key \in DOMAIN store /\ Unexpired(store[LastCall.key])
                          THEN PayloadOf(store[LastCall.key])
                          ELSE None
IsRead == (AnalysisGet \/ PoemGet)
C12_LazyExpiry == []ReadIsLazyExpiry /\ [][IsRead => store' = store]_vars

\* an item whose ttl equals the current time has just been read as absent
C12_Witness ==
    /\ JustRead
    /\ LastCall.key \in DOMAIN store
    /\ "ttl" \in DOMAIN store[LastCall.key]
    /\ store[LastCall.key].ttl * TicksPerSecond = now
    /\ LastCall.out = None


(***************************************************************************)
(* C13: in both handlers a request whose cache read or cache write failed  *)
(* is served as on a miss: the model is consulted and the response is the  *)
(* one the model's result alone determines, HTTP 200 cached:false with     *)
(* that result as data; it is HTTP 500 only when every model attempt       *)
(* failed, never because of the store.                                     *)
(***************************************************************************)
C13_StoreFailureTolerated ==
    \A r \in Reqs :
        (endpoint \in {"theme", "poem"} /\ req[r].pc = "done" /\ req[r].store_failed)
            => /\ req[r].ncalls > 0
               /\ IF req[r].result.status = "returned"
                  THEN req[r].resp = create_response(req[r].result.value, FALSE)
                  ELSE /\ endpoint = "theme"
                       /\ req[r].resp = create_error_response(500, "INTERNAL_ERROR")
                       /\ req[r].ncalls = MAX_RETRIES
                       /\ req[r].writes = 0

\* a request whose cache read and cache write both failed was answered 200
C13_Witness ==
    \E r \in Reqs :
        /\ req[r].pc = "done"
        /\ req[r].read_failed /\ req[r].write_failed
        /\ req[r].resp.statusCode = 200
        /\ ~req[r].resp.cached


(***************************************************************************)
(* generate_cache_key on its own: two texts, then their keys.              *)
(***************************************************************************)
MaxText == 3            \* characters of a text
Chars == {"a", "A", "b", " ", "CR", "LF"}
Texts == UNION {[1..n -> Chars] : n \in 0..MaxText}

InitKey ==
    /\ san_in \in Texts \X Texts
    /\ san_out = NotRun
    /\ endpoint = "key"
    /\ now = 0
    /\ store = <<>>
    /\ req = <<>>

KeyCall ==
    /\ endpoint = "key"
    /\ san_out = NotRun
    /\ san_out' = Returned(<<generate_cache_key(san_in[1]), generate_cache_key(san_in[2])>>)
    /\ UNCHANGED <<san_in, endpoint, now, store, req>>

NextKey == KeyCall

SpecKey == InitKey /\ [][NextKey]_vars

(***************************************************************************)
(* C14: two poem texts that have the same lines once the line terminators  *)
(* (CRLF, lone CR, LF) are set aside, leading and trailing white space is  *)
(* dropped and letter case is ignored get the same key from                *)
(* generate_cache_key; a text always gets the same key.                    *)
(***************************************************************************)
\* the lines of a text; cur is the line being read
RECURSIVE SplitLines(_, _)
SplitLines(s, cur) ==
    IF s = <<>> THEN <<cur>>
    ELSE IF Len(s) >= 2 /\ s[1] = "CR" /\ s[2] = "LF"
         THEN <<cur>> \o SplitLines(SubSeq(s, 3, Len(s)), <<>>)
    ELSE IF s[1] \in {"CR", "LF"} THEN <<cur>> \o SplitLines(Tail(s), <<>>)
    ELSE SplitLines(Tail(s), Append(cur, s[1]))
Blank(line) == \A i \in DOMAIN line : line[i] = " "
RECURSIVE DropBlankHead(_)
DropBlankHead(ls) == IF ls # <<>> /\ Blank(Head(ls)) THEN DropBlankHead(Tail(ls)) ELSE ls
RECURSIVE DropBlankTail(_)
DropBlankTail(ls) == IF ls # <<>> /\ Blank(ls[Len(ls)])
                     THEN DropBlankTail(SubSeq(ls, 1, Len(ls) - 1)) ELSE ls
FirstLetter(line) == CHOOSE i \in DOMAIN line : line[i] # " " /\ \A j \in 1..(i - 1) : line[j] = " "
LastLetter(line) == CHOOSE i \in DOMAIN line : line[i] # " " /\ \A j \in (i + 1)..Len(line) : line[j] = " "
\* the lines without the white space around the text: ls has no blank first or last line
Trimmed(ls) ==
    [i \in DOMAIN ls |->
        SubSeq(ls[i], IF i = 1 THEN FirstLetter(ls[i]) ELSE 1,
                      IF i = Len(ls) THEN LastLetter(ls[i]) ELSE Len(ls[i]))]
Folded(ls) == [i \in DOMAIN ls |-> [j \in DOMAIN ls[i] |->
                    IF ls[i][j] = "A" THEN "a" ELSE IF ls[i][j] = "B" THEN "b" ELSE ls[i][j]]]
Content(text) == Folded(Trimmed(DropBlankTail(DropBlankHead(SplitLines(text, <<>>)))))

WordLimit == 50
PoemLimit == 5000
StrVal(core, pad) == [type |-> "str", core |-> core, pad |-> pad]
NumberVal == [type |-> "number", core |-> 0, pad |-> 0]
\* len(s) and len(s.strip())
PyLen(v) == v.core + v.pad
StripLen(v) == v.core
FieldValues(limit) ==
    {NumberVal} \cup {StrVal(c, p) : c \in {0, 1, limit, limit + 1}, p \in {0, 2}}

RequiredFields(handler) == IF handler = "generate" THEN <<"verb", "adjective", "noun">>
                           ELSE <<"poem">>
FieldNames(handler) == {RequiredFields(handler)[i] : i \in DOMAIN RequiredFields(handler)}
LimitOf(handler) == IF handler = "generate" THEN WordLimit ELSE PoemLimit

\* what json.loads can return
JsonObjects(handler) ==
    {[type |-> "object", fields |-> f] :
        f \in UNION {[S -> FieldValues(LimitOf(handler))] : S \in SUBSET FieldNames(handler)}}
JsonOthers(handler) ==
    {[type |-> "null"], [type |-> "number"]}
        \cup {[type |-> t, has |-> S] : t \in {"string", "list"},
                                        S \in {{}, {RequiredFields(handler)[1]}}}
\* event.get('body'): absent, the empty string, text that is not JSON, JSON
EventBodies(handler) ==
    {[kind |-> "absent"], [kind |-> "empty"], [kind |-> "invalid"]}
        \cup {[kind |-> "json", value |-> j] :
                j \in JsonObjects(handler) \cup JsonOthers(handler)}

\* `field in body`: a key of a dict, a substring of a str, an element of a
\* list; None and numbers are not iterable
PyIn(field, body) ==
    CASE body.type = "object" -> IF field \in DOMAIN body.fields THEN "yes" ELSE "no"
      [] body.type \in {"string", "list"} -> IF field \in body.has THEN "yes" ELSE "no"
      [] OTHER -> "raise"

\* the 400 response of validate_input; the message names the field
ValidationError(code, field) == ("field" :> field) @@ create_error_response(400, code)

\* validate_input of lambda_function.py (lines 114-139): the loop from
\* fields[1] on; length measured on the stripped value (line 136)
RECURSIVE CheckFields(_, _)
CheckFields(fields, body) ==
    IF fields = <<>> THEN Returned(None)
    ELSE IF PyIn(Head(fields), body) = "raise" THEN Raised(TypeError("not iterable"))
    ELSE IF PyIn(Head(fields), body) = "no"
         THEN Returned(ValidationError("MISSING_FIELD", Head(fields)))
    ELSE IF body.type # "object" THEN Raised(TypeError("indices must be integers"))
    ELSE IF body.fields[Head(fields)].type # "str"
         THEN Returned(ValidationError("INVALID_TYPE", Head(fields)))
    ELSE IF StripLen(body.fields[Head(fields)]) = 0
         THEN Returned(ValidationError("EMPTY_FIELD", Head(fields)))
    ELSE IF StripLen(body.fields[Head(fields)]) > WordLimit
         THEN Returned(ValidationError("FIELD_TOO_LONG", Head(fields)))
    ELSE CheckFields(Tail(fields), body)
poem_validate_input(body) == CheckFields(<<"verb", "adjective", "noun">>, body)

\* validate_input of theme_analyzer.py (lines 103-125): length measured on
\* the value as given (line 122)
theme_validate_input(body) ==
    IF PyIn("poem", body) = "raise" THEN Raised(TypeError("not iterable"))
    ELSE IF PyIn("poem", body) = "no" THEN Returned(ValidationError("MISSING_POEM", "poem"))
    ELSE IF body.type # "object" THEN Raised(TypeError("indices must be integers"))
    ELSE IF body.fields.poem.type # "str" THEN Returned(ValidationError("INVALID_TYPE", "poem"))
    ELSE IF StripLen(body.fields.poem) = 0 THEN Returned(ValidationError("EMPTY_POEM", "poem"))
    ELSE IF PyLen(body.fields.poem) > PoemLimit
         THEN Returned(ValidationError("POEM_TOO_LONG", "poem"))
    ELSE Returned(None)

validate_input(handler, body) ==
    IF handler = "generate" THEN poem_validate_input(body) ELSE theme_validate_input(body)

\* what the handler does with the body: a response, or it goes on to the
\* cache read
Respond(resp) == [next |-> "respond", resp |-> resp]
Proceed == [next |-> "cache_read", resp |-> NoResponse]
\* lambda_handler up to the validation (lambda_function.py lines 37-63 and
\* 110-112, theme_analyzer.py lines 45-62 and 98-100); v is the outcome of
\* validate_input
AfterValidation(v) ==
    IF v.status = "raised" THEN Respond(create_error_response(500, "INTERNAL_ERROR"))
    ELSE IF v.value # None THEN Respond(v.value)
    ELSE Proceed
HandlerHead(handler, event_body) ==
    IF event_body.kind \in {"absent", "empty"}
    THEN Respond(create_error_response(400, "MISSING_BODY"))
    ELSE IF event_body.kind = "invalid"
    THEN Respond(create_error_response(400, "INVALID_JSON"))
    ELSE AfterValidation(validate_input(handler, event_body.value))

InitReq ==
    /\ endpoint \in {"generate", "analyze"}
    /\ san_in \in EventBodies(endpoint)
    /\ san_out = NotRun
    /\ now = 0
    /\ store = <<>>
    /\ req = NotRun

\* validate_input called on a dict, as in test_validate_input_*
ValidateCall ==
    /\ endpoint \in {"generate", "analyze"}
    /\ req = NotRun
    /\ san_in.kind = "json"
    /\ san_in.value.type = "object"
    /\ req' = validate_input(endpoint, san_in.value)
    /\ UNCHANGED <<san_in, san_out, endpoint, now, store>>

\* lambda_handler called with the event
HandleCall ==
    /\ endpoint \in {"generate", "analyze"}
    /\ san_out = NotRun
    /\ san_out' = HandlerHead(endpoint, san_in)
    /\ UNCHANGED <<san_in, endpoint, now, store, req>>

NextReq ==
    \/ ValidateCall
    \/ HandleCall

SpecReq == InitReq /\ [][NextReq]_vars


\* The failure the documented checks give for one field: missing, not a
\* string, empty or white space only, longer than the limit; "ok" otherwise.
FieldFailure(handler, body, field) ==
    IF field \notin DOMAIN body.fields
    THEN IF handler = "generate" THEN "MISSING_FIELD" ELSE "MISSING_POEM"
    ELSE IF body.fields[field].type # "str" THEN "INVALID_TYPE"
    ELSE IF body.fields[field].core = 0
    THEN IF handler = "generate" THEN "EMPTY_FIELD" ELSE "EMPTY_POEM"
    ELSE IF body.fields[field].core + body.fields[field].pad > LimitOf(handler)
    THEN IF handler = "generate" THEN "FIELD_TOO_LONG" ELSE "POEM_TOO_LONG"
    ELSE "ok"
FailingFields(handler, body) ==
    {i \in DOMAIN RequiredFields(handler) :
        FieldFailure(handler, body, RequiredFields(handler)[i]) # "ok"}
FirstFailing(handler, body) ==
    CHOOSE i \in FailingFields(handler, body) :
        \A j \in FailingFields(handler, body) : i <= j
Validated == /\ endpoint \in {"generate", "analyze"}
             /\ req # NotRun

\* C15: validate_input returns the first applicable failure and nothing
\* else: the fields are checked in order (verb, adjective, noun; poem), each
\* against missing, non-string, empty or white space only, longer than 50
\* (5000) characters; every failure is an HTTP 400 response with the code of
\* that check, and a body that passes every check is reported valid (None).
C15_FirstFailure ==
    Validated =>
        /\ req.status = "returned"
        /\ IF FailingFields(endpoint, san_in.value) = {}
           THEN req.value = None
           ELSE /\ req.value # None
                /\ req.value.statusCode = 400
                /\ req.value.field =
                       RequiredFields(endpoint)[FirstFailing(endpoint, san_in.value)]
                /\ req.value.code =
                       FieldFailure(endpoint, san_in.value,
                           RequiredFields(endpoint)[FirstFailing(endpoint, san_in.value)])

Malformed(handler, event_body) ==
    \/ event_body.kind # "json"
    \/ event_body.value.type # "object"
    \/ FailingFields(handler, event_body.value) # {}
ValidationCodes ==
    {"MISSING_BODY", "INVALID_JSON", "MISSING_FIELD", "MISSING_POEM", "INVALID_TYPE",
     "EMPTY_FIELD", "EMPTY_POEM", "FIELD_TOO_LONG", "POEM_TOO_LONG"}
Handled == /\ endpoint \in {"generate", "analyze"}
           /\ san_out # NotRun

\* C16: every malformed POST (body absent, not valid JSON, JSON that is not
\* an object, or an object that does not meet the field requirements) is
\* answered with status 400, success false and one of the validation codes,
\* never with 500, and the handler does not go on to the cache read.
C16_MalformedIs400 ==
    (Handled /\ Malformed(endpoint, san_in)) =>
        /\ san_out.next = "respond"
        /\ san_out.resp.statusCode = 400
        /\ san_out.resp.success = FALSE
        /\ san_out.resp.code \in ValidationCodes


\* field k of record d is present and lies in lo..hi
PresentIn(d, k, lo, hi) == k \in DOMAIN d /\ d[k] >= lo /\ d[k] <= hi
\* every section and every numeric field the sanitizer looks at is present
\* and inside its interval (the secondary list is optional)
AlreadyValid(d) ==
    /\ {"emotion", "colors", "animation", "typography", "layout"} \subseteq DOMAIN d
    /\ PresentIn(d.emotion, "intensity", 0, 100)
    /\ "secondary" \in DOMAIN d.emotion
         => \A i \in DOMAIN d.emotion.secondary :
                PresentIn(d.emotion.secondary[i], "intensity", 0, 100)
    /\ "timing" \in DOMAIN d.animation
    /\ PresentIn(d.animation.timing, "duration", 50000, 500000)
    /\ PresentIn(d.animation.timing, "stagger_delay", 5000, 50000)
    /\ PresentIn(d.typography, "font_weight", 30000, 90000)
    /\ PresentIn(d.typography, "font_scale", 80, 150)
    /\ PresentIn(d.typography, "line_height", 120, 200)
    /\ PresentIn(d.typography, "letter_spacing", -5, 20)
    /\ PresentIn(d.typography, "text_shadow", 0, 400)
    /\ PresentIn(d.layout, "spacing_scale", 80, 140)
    /\ PresentIn(d.layout, "border_radius", 0, 2000)
    /\ PresentIn(d.layout, "backdrop_blur", 0, 2000)
    /\ PresentIn(d.layout, "gradient_angle", 0, 35999)
    /\ "opacity_variations" \in DOMAIN d.layout
    /\ \A i \in DOMAIN d.layout.opacity_variations :
            d.layout.opacity_variations[i] >= 10 /\ d.layout.opacity_variations[i] <= 100
    /\ "palette" \in DOMAIN d.colors
    /\ \A i \in DOMAIN d.colors.palette : PresentIn(d.colors.palette[i], "weight", 10, 100)
ValidUnchanged ==
    (endpoint = "sanitizer" /\ san_out.status # "none" /\ AlreadyValid(san_in))
        => san_out = Returned(san_in)
SecondCallSame ==
    (endpoint = "sanitizer" /\ req # <<>>) => req = Returned(san_out.value)

\* C17: the sanitizer is idempotent: applied to an analysis whose fields are
\* all present and inside their valid ranges it returns an equal object,
\* and whenever it returns, sanitizing its result again gives that result.
C17_Idempotent == ValidUnchanged /\ SecondCallSame


\* the record at section (and sub-section) of an analysis, <<>> when absent
SectionOf(d, path) ==
    IF path[1] \notin DOMAIN d THEN <<>>
    ELSE IF Len(path) = 1 THEN d[path[1]]
    ELSE IF path[2] \notin DOMAIN d[path[1]] THEN <<>>
    ELSE d[path[1]][path[2]]
\* the documented defaults, in hundredths
DocumentedDefaults ==
    {<<<<"animation", "timing">>, "duration", 200000>>,
     <<<<"animation", "timing">>, "stagger_delay", 15000>>,
     <<<<"typography">>, "font_weight", 40000>>,
     <<<<"typography">>, "font_scale", 100>>,
     <<<<"typography">>, "line_height", 160>>,
     <<<<"typography">>, "letter_spacing", 0>>,
     <<<<"typography">>, "text_shadow", 0>>,
     <<<<"layout">>, "spacing_scale", 100>>,
     <<<<"layout">>, "border_radius", 800>>,
     <<<<"layout">>, "backdrop_blur", 400>>,
     <<<<"layout">>, "gradient_angle", 13500>>}
DefaultFilled(in, out, e) ==
    e[2] \notin DOMAIN SectionOf(in, e[1])
        => /\ e[2] \in DOMAIN SectionOf(out, e[1])
           /\ SectionOf(out, e[1])[e[2]] = e[3]
\* the same, only for the sections the input has
DefaultFilledInSection(in, out, e) ==
    (e[1][1] \in DOMAIN in /\ (Len(e[1]) = 2 => e[1][2] \in DOMAIN in[e[1][1]]))
        => DefaultFilled(in, out, e)

\* C18: the sanitizer fills in missing data: when a field or a whole
\* section is absent from the input (no layout section, no animation.timing,
\* no emotion.intensity, a palette entry without weight), the returned
\* object contains that field, set to its documented default.
C18_DefaultsFilled ==
    (endpoint = "sanitizer" /\ san_out.status = "returned") =>
        /\ \A e \in DocumentedDefaults : DefaultFilled(san_in, san_out.value, e)
        /\ "intensity" \in DOMAIN SectionOf(san_out.value, <<"emotion">>)
        /\ \A i \in DOMAIN Get(SectionOf(san_out.value, <<"colors">>), "palette", <<>>) :
               "weight" \in DOMAIN san_out.value.colors.palette[i]


HasSecondary(d) == "emotion" \in DOMAIN d /\ "secondary" \in DOMAIN d.emotion

\* C19: for an analysis whose emotion section has a secondary list, the
\* sanitizer clamps the intensity of every secondary emotion into [0,1]
\* (-0.2 becomes 0.0) together with the primary intensity (1.5 becomes 1.0),
\* and leaves the labels and the length of the list unchanged.
C19_SecondaryClamped ==
    (endpoint = "sanitizer" /\ san_out.status # "none" /\ HasSecondary(san_in)) =>
        /\ san_out.status = "returned"
        /\ "intensity" \in DOMAIN san_in.emotion
             => san_out.value.emotion.intensity = Nearest(0, 100, san_in.emotion.intensity)
        /\ Len(san_out.value.emotion.secondary) = Len(san_in.emotion.secondary)
        /\ \A i \in DOMAIN san_in.emotion.secondary :
             /\ san_out.value.emotion.secondary[i].emotion = san_in.emotion.secondary[i].emotion
             /\ "intensity" \in DOMAIN san_in.emotion.secondary[i]
                  => san_out.value.emotion.secondary[i].intensity
                         = Nearest(0, 100, san_in.emotion.secondary[i].intensity)


(***************************************************************************)
(* SpecColors: one call of convert_colors_to_hex on a list of tokens.      *)
(***************************************************************************)
MaxColors == 3
ColorTokens == {"red", "RED", " Blue ", "lime", "grey", "#FF0000", "#ff0000", "turquoise", ""}
ColorLists == UNION {[1..n -> ColorTokens] : n \in 0..MaxColors}

InitColors ==
    /\ endpoint = "colors"
    /\ san_in \in ColorLists
    /\ san_out = NotRun
    /\ now = 0
    /\ store = <<>>
    /\ req = <<>>

ConvertCall ==
    /\ endpoint = "colors"
    /\ san_out = NotRun
    /\ san_out' = Returned(convert_colors_to_hex(san_in))
    /\ UNCHANGED <<san_in, endpoint, now, store, req>>

NextColors == ConvertCall

SpecColors == InitColors /\ [][NextColors]_vars

\* what each token is: a name of the table (written in any case, with or
\* without surrounding white space), a hex code, or neither
NamedAs ==
    [t \in ColorTokens |->
        CASE t \in {"red", "RED"} -> "red"
          [] t = " Blue " -> "blue"
          [] t \in {"lime", "grey"} -> t
          [] OTHER -> "none"]
HexCodes == {"#FF0000", "#ff0000"}
ExpectedHex(t) ==
    IF NamedAs[t] # "none" THEN color_map[NamedAs[t]]
    ELSE IF t \in HexCodes THEN t
    ELSE "#6b7280"

\* C20: convert_colors_to_hex maps each token on its own and keeps the
\* length and order of the list: a name of the table (in any case, white
\* space around it ignored) becomes that name's hex value, a token that is
\* already a hex code is returned unchanged, any other token becomes the
\* default gray #6b7280.
C20_ColorsToHex ==
    (endpoint = "colors" /\ san_out # NotRun) =>
        /\ san_out.status = "returned"
        /\ Len(san_out.value) = Len(san_in)
        /\ \A i \in DOMAIN san_in : san_out.value[i] = ExpectedHex(san_in[i])


(***************************************************************************)
(* SpecFallback: one call of generate_enhanced_fallback_poem on request    *)
(* words as the handler passes them (stripped, lower-case; a word may hold *)
(* a line break).                                                          *)
(***************************************************************************)
FallbackVerbs == {<<"dance">>, <<"fly">>, <<"whisper">>, <<"thunder">>, <<"walk">>,
                  <<"whisper", "now">>}
FallbackAdjectives == {<<"dark">>, <<"fierce">>, <<"light">>, <<"calm">>, <<"new">>,
                       <<"golden">>}
FallbackNouns == {<<"moon">>, <<"city">>, <<"light">>, <<"leaves">>}
FallbackWords ==
    {[verb |-> v, adjective |-> a, noun |-> n] :
        v \in FallbackVerbs, a \in FallbackAdjectives, n \in FallbackNouns}

InitFallback ==
    /\ endpoint = "fallback"
    /\ san_in \in FallbackWords
    /\ san_out = NotRun
    /\ now = 0
    /\ store = <<>>
    /\ req = <<>>

FallbackCall ==
    /\ endpoint = "fallback"
    /\ san_out = NotRun
    /\ \E uuid \in Uuids :
         san_out' = Returned(generate_enhanced_fallback_poem(san_in, now, uuid))
    /\ UNCHANGED <<san_in, endpoint, now, store, req>>

NextFallback == FallbackCall

SpecFallback == InitFallback /\ [][NextFallback]_vars

FallbackDone == endpoint = "fallback" /\ san_out # NotRun

\* C21: in the result of generate_enhanced_fallback_poem the animation
\* style delivered to the client, in theme.animations.style and in
\* analysis.visualRecommendations.animations.style, is the value of the
\* verb lookup: energetic, mystical or dramatic for the listed verbs, calm
\* for every other verb.
C21_StyleFromVerb ==
    FallbackDone =>
        /\ san_out.value.theme.animations.style = VerbStyle(san_in.verb)
        /\ san_out.value.analysis.visualRecommendations.animations.style
               = VerbStyle(san_in.verb)

\* the template the noun's list selects
TemplateOfNoun(noun) ==
    IF noun \in {<<"moon">>} THEN NatureTemplate
    ELSE IF noun \in {<<"city">>, <<"light">>} THEN UrbanTemplate
    ELSE IntrospectiveTemplate
TemplateFromNoun ==
    FallbackDone => san_out.value.poem = Render(TemplateOfNoun(san_in.noun), san_in)
TwelveLines ==
    FallbackDone => Len(NonEmptyLines(san_out.value.poem)) = 12

\* C22: the poem template is selected by the noun alone (nature list,
\* urban list, otherwise introspective), whatever the verb and adjective,
\* and the call always returns a poem of exactly 12 non-empty lines.
C22_TemplateByNoun == TemplateFromNoun /\ TwelveLines


(***************************************************************************)
(* SpecTransform: transform_analysis_for_frontend called twice on the same *)
(* analysis, the first result kept in san_out and the second in req.       *)
(***************************************************************************)
RhythmTypes == {"iambic", "trochaic", "free verse", "iambic tetrameter"}
Emotions == {"intense", "hopeful", "love", "calm", "dramatic", "mysterious"}
Moods == {"dramatic", "intense", "mysterious", "ethereal", "dreamy", "reflective", "hopeful",
          "calm"}
ColorChoices == {<<"#111111", "#222222">>, <<"#111111", "#222222", "#333333">>}
\* a dict with key k holding any value of S, or without k
OptField(k, S) == {<<>>} \cup {k :> v : v \in S}
TransformInputs ==
    {[rhythm |-> r,
      traditional |-> e @@ m @@ d,
      temporal |-> [background_suggestions |-> g]] :
        r \in OptField("rhythm_type", RhythmTypes),
        e \in OptField("emotion", Emotions),
        m \in OptField("mood", Moods),
        d \in OptField("dominant_colors", ColorChoices),
        g \in OptField("gradient_colors", ColorChoices)}
TransformWords == [verb |-> <<"dance">>, adjective |-> <<"golden">>, noun |-> <<"leaves">>]

InitTransform ==
    /\ endpoint = "transform"
    /\ san_in \in TransformInputs
    /\ san_out = NotRun
    /\ now = 0
    /\ store = <<>>
    /\ req = NotRun

\* the function reads its argument with .get and builds a new dict
TransformCall ==
    /\ endpoint = "transform"
    /\ san_out = NotRun
    /\ san_out' = Returned(transform_analysis_for_frontend(
                      san_in, TransformWords.verb, TransformWords.adjective,
                      TransformWords.noun))
    /\ UNCHANGED <<san_in, endpoint, now, store, req>>

TransformAgain ==
    /\ endpoint = "transform"
    /\ san_out # NotRun
    /\ req = NotRun
    /\ req' = Returned(transform_analysis_for_frontend(
                  san_in, TransformWords.verb, TransformWords.adjective,
                  TransformWords.noun))
    /\ UNCHANGED <<san_in, san_out, endpoint, now, store>>

NextTransform ==
    \/ TransformCall
    \/ TransformAgain

SpecTransform == InitTransform /\ [][NextTransform]_vars

\* what the analysis says, with the documented defaults for absent keys
GivenRhythm(a) == IF "rhythm_type" \in DOMAIN a.rhythm THEN a.rhythm.rhythm_type
                  ELSE "free verse"
GivenMood(a) == IF "mood" \in DOMAIN a.traditional THEN a.traditional.mood ELSE "reflective"
GivenEmotion(a) == IF "emotion" \in DOMAIN a.traditional THEN a.traditional.emotion
                   ELSE "neutral"
StyleRule(a) ==
    IF GivenRhythm(a) \in {"iambic", "trochaic"} THEN "energetic"
    ELSE IF GivenMood(a) \in {"dramatic", "intense"} THEN "dramatic"
    ELSE IF GivenMood(a) \in {"mysterious", "ethereal"} THEN "mystical"
    ELSE "calm"
Transformed == endpoint = "transform" /\ san_out # NotRun

\* C23: transform_analysis_for_frontend is a deterministic function of its
\* arguments (a second call with the same argument returns an equal
\* result); animations.style is energetic for an iambic or trochaic
\* rhythm, otherwise dramatic for a dramatic or intense mood, otherwise
\* mystical for a mysterious or ethereal mood, otherwise calm; effects.blur
\* iff the mood is ethereal, dreamy or mysterious, effects.glow iff the
\* emotion is hopeful, magical, wonder or love, effects.shadow iff the
\* intensity is high or the mood is dramatic or intense, effects.gradient
\* iff there are more than 2 gradient colours.
C23_TransformRules ==
    Transformed =>
        LET out == san_out.value.visualRecommendations
            tone == san_out.value.themeAnalysis.emotional_tone
        IN  /\ req # NotRun => req = san_out
            /\ out.animations.style = StyleRule(san_in)
            /\ out.effects.blur = (GivenMood(san_in) \in {"ethereal", "dreamy", "mysterious"})
            /\ out.effects.glow
                   = (GivenEmotion(san_in) \in {"hopeful", "magical", "wonder", "love"})
            /\ out.effects.shadow
                   = (tone.intensity = "high" \/ GivenMood(san_in) \in {"dramatic", "intense"})
            /\ out.effects.gradient = (Len(out.colors.gradient) > 2)

\* the analysis was transformed twice, its rhythm iambic and its mood dramatic
C23_Witness ==
    /\ Transformed
    /\ req # NotRun
    /\ GivenRhythm(san_in) = "iambic"
    /\ GivenMood(san_in) = "dramatic"
    /\ GivenEmotion(san_in) = "love"
    /\ san_out.value.visualRecommendations.effects.shadow

\* C29: in every result of transform_analysis_for_frontend,
\* themeAnalysis.emotional_tone.scores gives the primary emotion the score
\* 0.8, for every emotion and mood, also when the mood equals the emotion
\* (and secondary is None).
C29_PrimaryScore ==
    Transformed =>
        LET tone == san_out.value.themeAnalysis.emotional_tone
        IN  /\ tone.primary = GivenEmotion(san_in)
            /\ tone.primary \in DOMAIN tone.scores
            /\ tone.scores[tone.primary] = 80


\* the call a successful RedisCacheManager.set has just logged
JustSet(h) ==
    /\ endpoint = "redis"
    /\ Len(h) > 0
    /\ h[Len(h)].op = "put"
    /\ h[Len(h)].ok
\* the number of entries of a category
EntriesOf(st, c, t) == Cardinality(LiveKeysOf(st, c, t)) + FillerCount(st, c, t)
MaxSizeOf(c) == IF c \in DOMAIN cache_configs THEN cache_configs[c].max_size ELSE 100
StaticTtlOf(c) == IF c \in DOMAIN cache_configs THEN cache_configs[c].ttl ELSE 3600
\* the remaining TTL, in seconds as the server reports it, of key x once the
\* call rec has written its entry
TtlAfterWrite(st, rec, x, t) ==
    IF x = redis_generate_cache_key(rec.cache_type, rec.key)
    THEN RedisTtl([exp |-> rec.exp], t)
    ELSE RedisTtl(st.keys[x], t)
\* what a successful set (logged as rec) has done to the store st, leaving sn
SetKeepsLimit(st, sn, rec, t) ==
    LET c == rec.cache_type
        k == redis_generate_cache_key(c, rec.key)
        removed == (LiveKeysOf(st, c, t) \cup {k}) \ DOMAIN sn.keys
        kept == LiveKeysOf(sn, c, t)
        gone == FillerCount(st, c, t) - FillerCount(sn, c, t)
    IN  /\ EntriesOf(sn, c, t) <= MaxSizeOf(c)
        /\ \A x \in removed, y \in kept :
               TtlAfterWrite(st, rec, x, t) <= TtlAfterWrite(st, rec, y, t)
        /\ gone > 0 => \A y \in kept :
               RedisTtl(st.filler[c], t) <= TtlAfterWrite(st, rec, y, t)
        /\ FillerCount(sn, c, t) > 0 => \A x \in removed :
               TtlAfterWrite(st, rec, x, t) <= RedisTtl(st.filler[c], t)
        /\ removed # {} \/ gone > 0 => EntriesOf(sn, c, t) = MaxSizeOf(c)
        /\ \A d \in DOMAIN st.filler \ {c} :
               /\ LiveKeysOf(sn, d, t) = LiveKeysOf(st, d, t)
               /\ \A x \in LiveKeysOf(st, d, t) : sn.keys[x] = st.keys[x]
               /\ sn.filler[d] = st.filler[d]
        /\ (rec.ttl = None /\ k \in DOMAIN sn.keys)
               => sn.keys[k].exp = t + StaticTtlOf(c) * TicksPerSecond

\* C24: RedisCacheManager keeps each category within its size limit: once
\* a successful set returns, the category holds at most max_size entries;
\* the entries the cleanup removed are those with the smallest remaining
\* TTL; entries of other categories are not removed; and an entry set
\* without a ttl argument is stored with the category's static TTL.
C24_SizeLimitKept ==
    [][JustSet(req'.hist) /\ Len(req'.hist) > Len(req.hist)
          => SetKeepsLimit(store, store', req'.hist[Len(req'.hist)], now)]_vars

\* a set without ttl argument into a full category has made the cleanup
\* remove one of the older entries and keep the new one
C24_Witness ==
    /\ JustSet(req.hist)
    /\ req.hist[Len(req.hist)].ttl = None
    /\ req.hist[Len(req.hist)].cache_type = "poem"
    /\ store.filler["poem"].count = MaxSizeOf("poem") - 1
    /\ Cardinality(LiveKeysOf(store, "poem", now)) = 1
    /\ store.filler["popular_words"].count = MaxSizeOf("popular_words")


\* request r was answered with the poem of the model's JSON answer PoemFull
AnsweredFromModel(r) ==
    /\ endpoint = "poem"
    /\ req[r].pc = "done"
    /\ req[r].resp.statusCode = 200
    /\ req[r].resp.data.poem = PoemFull.poem
\* the model's dominant colours after one pass of convert_colors_to_hex
FirstPass == convert_colors_to_hex(PoemFull.analysis.traditional.dominant_colors)

\* C25: on the successful model path the dominant colours go through
\* convert_colors_to_hex twice, and the palette after the second pass
\* equals the palette after the first: a colour the model gave as a table
\* name (RED) reaches the returned theme as that name's hex value (#dc2626).
C25_ColorsSurviveSecondPass ==
    \A r \in Reqs :
        AnsweredFromModel(r) =>
            /\ FirstPass[1] = "#dc2626"
            /\ req[r].resp.data.theme.colors.primary = FirstPass[1]
            /\ req[r].resp.data.theme.colors.secondary = FirstPass[2]
            /\ req[r].resp.data.theme.colors.accent = FirstPass[3]
            /\ req[r].resp.data.theme.colors.background = FirstPass[4]
            /\ req[r].resp.data.analysis.visualRecommendations.colors.primary = FirstPass[1]


(***************************************************************************)
(* SpecWords: the cache keys of two generation requests.  san_in holds the *)
(* two bodies (each word a sequence of characters), san_out their keys:    *)
(* the handler's and PoemCacheManager._create_input_hash's.                *)
(***************************************************************************)
RawWords == {<<"a">>, <<"A">>, <<" ", "a">>, <<"a", "-", "a">>, <<"a", "_", "a">>}
RawTriples == [verb : RawWords, adjective : RawWords, noun : RawWords]

\* lambda_handler lines 65-67: body[field].strip().lower()
NormaliseWords(body) ==
    [verb |-> lower(strip(body.verb)),
     adjective |-> lower(strip(body.adjective)),
     noun |-> lower(strip(body.noun))]
\* line 70: f"{verb}-{adjective}-{noun}"
HandlerKey(w) == w.verb \o <<"-">> \o w.adjective \o <<"-">> \o w.noun
\* PoemCacheManager._create_input_hash (redis_cache.py lines 247-252):
\* sorted(inputs.items()) puts adjective, noun, verb in this order
create_input_hash(inputs) ==
    md5(lower(inputs.adjective \o <<"_">> \o inputs.noun \o <<"_">> \o inputs.verb))

InitWords ==
    /\ endpoint = "words"
    /\ san_in \in RawTriples \X RawTriples
    /\ san_out = NotRun
    /\ now = 0
    /\ store = <<>>
    /\ req = <<>>

\* both requests get their keys
WordKeys ==
    /\ endpoint = "words"
    /\ san_out = NotRun
    /\ san_out' = Returned(
            [handler |-> <<HandlerKey(NormaliseWords(san_in[1])),
                           HandlerKey(NormaliseWords(san_in[2]))>>,
             redis |-> <<create_input_hash(NormaliseWords(san_in[1])),
                         create_input_hash(NormaliseWords(san_in[2]))>>])
    /\ UNCHANGED <<san_in, endpoint, now, store, req>>

NextWords == WordKeys

SpecWords == InitWords /\ [][NextWords]_vars

\* a word with white space removed at both ends and letters in lower case
Normal(word) ==
    LET inner == {i \in DOMAIN word : word[i] # " "}
        first == CHOOSE i \in inner : \A j \in inner : i <= j
        last == CHOOSE i \in inner : \A j \in inner : j <= i
    IN  [i \in 1..(last - first + 1) |->
            IF word[first + i - 1] = "A" THEN "a" ELSE word[first + i - 1]]
SameWords(b1, b2) ==
    /\ Normal(b1.verb) = Normal(b2.verb)
    /\ Normal(b1.adjective) = Normal(b2.adjective)
    /\ Normal(b1.noun) = Normal(b2.noun)

\* C26: poem cache keys are injective on normalised input: two requests
\* whose (verb, adjective, noun) triples differ after strip and lower-casing
\* never get the same cache key, neither the handler's key (the words joined
\* with '-') nor PoemCacheManager._create_input_hash's (joined with '_').
C26_KeysInjective ==
    (endpoint = "words" /\ san_out # NotRun /\ ~SameWords(san_in[1], san_in[2])) =>
        /\ san_out.value.handler[1] # san_out.value.handler[2]
        /\ san_out.value.redis[1] # san_out.value.redis[2]


(***************************************************************************)
(* SpecUsers: two registration requests against the user table.  san_in    *)
(* holds the two bodies, store the table (user_id -> item), req the two    *)
(* invocations of register_user, each split at its two table calls:        *)
(* get_item (line 117) and put_item (line 145).                            *)
(***************************************************************************)
MaxUserTime == 2
Emails == {<<"a">>, <<"A", " ">>, <<"b">>, <<>>}
Passwords == {<<"p", "a", "s", "s", "w", "o", "r", "d">>,
              <<"P", "A", "S", "S", "W", "O", "R", "D">>,
              <<"p", "w">>}
FullNames == {<<"A", "n", "n">>, <<" ">>}
RegisterBodies == [email : Emails, password : Passwords, full_name : FullNames]
Registrations == {1, 2}

\* generate_user_id: hashlib.md5(email.lower().encode()).hexdigest()
generate_user_id(email) == md5(lower(email))
\* hash_password: hashlib.sha256(password.encode()).hexdigest()
hash_password(password) == <<"sha256", password>>
\* the item register_user writes (lines 128-143)
user_data(user_id, email, full_name, password, t) ==
    [user_id |-> user_id,
     email |-> email,
     full_name |-> full_name,
     password_hash |-> hash_password(password),
     created_at |-> t,
     last_login |-> None,
     poem_count |-> 0,
     favorite_poems |-> <<>>,
     settings |-> [theme_preference |-> "auto",
                   animation_preference |-> "normal",
                   email_notifications |-> TRUE]]
IdleRegistration ==
    [pc |-> "start", email |-> <<>>, full_name |-> <<>>, user_id |-> None,
     statusCode |-> 0, created_at |-> None]

InitUsers ==
    /\ endpoint = "users"
    /\ san_in \in [Registrations -> RegisterBodies]
    /\ san_out = NotRun
    /\ now = 0
    /\ store = <<>>
    /\ req = [i \in Registrations |-> IdleRegistration]

\* lines 97-113: read the body, validate, derive the user id
RegisterValidate(i) ==
    /\ endpoint = "users"
    /\ req[i].pc = "start"
    /\ LET email == strip(lower(san_in[i].email))
           password == san_in[i].password
           full_name == strip(san_in[i].full_name)
       IN  req' = [req EXCEPT ![i] =
              IF email = <<>> \/ password = <<>> \/ full_name = <<>>
                   \/ Len(password) < 8
              THEN [@ EXCEPT !.pc = "done", !.statusCode = 400]
              ELSE [@ EXCEPT !.pc = "check", !.email = email,
                             !.full_name = full_name,
                             !.user_id = generate_user_id(email)]]
    /\ UNCHANGED <<san_in, san_out, endpoint, now, store>>

\* lines 116-126: get_item; 409 when the item exists, 500 when the call fails
RegisterCheck(i) ==
    /\ endpoint = "users"
    /\ req[i].pc = "check"
    /\ \E failed \in BOOLEAN :
          req' = [req EXCEPT ![i] =
              IF failed THEN [@ EXCEPT !.pc = "done", !.statusCode = 500]
              ELSE IF req[i].user_id \in DOMAIN store
                   THEN [@ EXCEPT !.pc = "done", !.statusCode = 409]
                   ELSE [@ EXCEPT !.pc = "write"]]
    /\ UNCHANGED <<san_in, san_out, endpoint, now, store>>

\* lines 128-163: build the item at the current time, put_item (without a
\* condition), answer 201; 500 when put_item fails (line 167)
RegisterWrite(i) ==
    /\ endpoint = "users"
    /\ req[i].pc = "write"
    /\ \E failed \in BOOLEAN :
          IF failed
          THEN /\ req' = [req EXCEPT ![i] = [@ EXCEPT !.pc = "done", !.statusCode = 500]]
               /\ store' = store
          ELSE /\ store' = Put(store, req[i].user_id,
                               user_data(req[i].user_id, req[i].email,
                                         req[i].full_name, san_in[i].password, now))
               /\ req' = [req EXCEPT ![i] = [@ EXCEPT !.pc = "done", !.statusCode = 201,
                                                       !.created_at = now]]
    /\ UNCHANGED <<san_in, san_out, endpoint, now>>

\* the clock moves between the steps of the requests
UserTick ==
    /\ endpoint = "users"
    /\ now < MaxUserTime
    /\ now' = now + 1
    /\ UNCHANGED <<san_in, san_out, endpoint, store, req>>

NextUsers ==
    \/ \E i \in Registrations : RegisterValidate(i)
    \/ \E i \in Registrations : RegisterCheck(i)
    \/ \E i \in Registrations : RegisterWrite(i)
    \/ UserTick

SpecUsers == InitUsers /\ [][NextUsers]_vars

SameEmail(i, j) == strip(lower(san_in[i].email)) = strip(lower(san_in[j].email))
\* no two registrations of one email are both answered 201
OneCreated ==
    \A i, j \in Registrations :
        (i # j /\ SameEmail(i, j)) => ~(req[i].statusCode = 201 /\ req[j].statusCode = 201)
\* a stored user stays as it was stored
RecordKept == \A id \in DOMAIN store : id \in DOMAIN store' /\ store'[id] = store[id]

\* C30: at most one account is ever created per email address (compared
\* without case): once a user is stored for an email, register_user leaves
\* the stored record unchanged, and of two registrations of the same email,
\* also when interleaved between get_item and put_item, at most one
\* receives 201.
C30_OneAccountPerEmail ==
    [](endpoint = "users" => OneCreated) /\ [][endpoint = "users" => RecordKept]_vars


\* the response of an answered request carries a record of the fallback
\* generator for its words (a request is served within one tick)
FallbackAnswer(rec) ==
    /\ rec.resp.statusCode = 200
    /\ ~rec.resp.cached
    /\ \E uuid \in Uuids :
            rec.resp.data = generate_enhanced_fallback_poem(rec.input, rec.at, uuid)

\* C27: in the generation handler a fallback result is cached like a model
\* result: with a working store, an identical request arriving within the
\* 24-hour TTL of a request answered by the fallback generator is answered
\* cached:true with that fallback record and makes no model call.
C27_FallbackCached ==
    \A r1, r2 \in Reqs :
        (/\ endpoint = "poem"
         /\ r2 = r1 + 1
         /\ req[r1].pc = "archived"
         /\ req[r2].pc = "done"
         /\ req[r2].input = req[r1].input
         /\ req[r2].at - req[r1].at < TtlTicks
         /\ ~req[r1].store_failed /\ ~req[r2].store_failed
         /\ FallbackAnswer(req[r1]))
            => /\ req[r2].resp = create_response(req[r1].resp.data, TRUE)
               /\ req[r2].ncalls = 0


(***************************************************************************)
(* SpecConcurrent: the two handlers serving MaxReq requests with the same  *)
(* input at once.  Each invocation runs its cache read, its model calls    *)
(* and its cache write as separate steps, interleaved in any order with    *)
(* the steps of the other; the table's get_item and put_item are atomic.   *)
(***************************************************************************)
\* the input of the requests that arrived so far
Arrived == {req[q].input : q \in {x \in Reqs : req[x].pc # "idle"}}

\* theme_analyzer.lambda_handler lines 45-67, in an invocation of its own
ThemeArrive(r) ==
    /\ endpoint = "theme"
    /\ req[r].pc = "idle"
    /\ \E p \in Poems :
        /\ Arrived \subseteq {p}
        /\ req' = [req EXCEPT ![r] =
                [IdleReq EXCEPT !.pc = "cache_read", !.input = p, !.at = now,
                                !.cache_key = generate_cache_key(p)]]
    /\ UNCHANGED <<san_in, san_out, endpoint, now, store>>

\* lambda_function.lambda_handler lines 52-70, in an invocation of its own
PoemArrive(r) ==
    /\ endpoint = "poem"
    /\ req[r].pc = "idle"
    /\ \E w \in PoemInputs :
        /\ Arrived \subseteq {w}
        /\ req' = [req EXCEPT ![r] =
                [IdleReq EXCEPT !.pc = "cache_read", !.input = w, !.at = now,
                                !.cache_key = PoemKey(w)]]
    /\ UNCHANGED <<san_in, san_out, endpoint, now, store>>

InitConcurrent ==
    /\ san_in = NoValue
    /\ san_out = NotRun
    /\ endpoint \in {"theme", "poem"}
    /\ now = 0
    /\ store = <<>>
    /\ req = [r \in Reqs |-> IdleReq]

NextConcurrent ==
    \/ Tick
    \/ \E r \in Reqs : ThemeArrive(r)
    \/ \E r \in Reqs : ThemeCacheRead(r)
    \/ \E r \in Reqs : ThemeAttempt(r)
    \/ \E r \in Reqs : Sleep(r)
    \/ \E r \in Reqs : ThemeCacheWrite(r)
    \/ \E r \in Reqs : PoemArrive(r)
    \/ \E r \in Reqs : PoemCacheRead(r)
    \/ \E r \in Reqs : PoemGenerate(r)
    \/ \E r \in Reqs : PoemCacheWrite(r)

SpecConcurrent == InitConcurrent /\ [][NextConcurrent]_vars

\* the payload of a stored item
StoredPayload(item) ==
    IF endpoint = "theme" THEN item.analysis_data ELSE item.poem_data
\* the payloads of the requests answered cached:false
FreshPayloads ==
    {req[r].resp.data : r \in {x \in Reqs : /\ req[x].pc = "done"
                                           /\ req[x].resp.statusCode = 200
                                           /\ ~req[x].resp.cached}}
\* every answered request was answered 200 (in the theme handler: every
\* request whose model calls were all answered with a JSON object)
AllAnswered200 ==
    \A r \in Reqs :
        (req[r].pc = "done" /\ (endpoint = "poem" \/ req[r].model_json))
            => req[r].resp.statusCode = 200
\* the stored entry is absent or the whole payload of one fresh answer
EntryIsOnePayload == \A k \in DOMAIN store : StoredPayload(store[k]) \in FreshPayloads
\* a request answered from the cache carries the stored payload
CachedIsStored ==
    \A r \in Reqs :
        (req[r].pc = "done" /\ req[r].resp.statusCode = 200 /\ req[r].resp.cached)
            => /\ req[r].cache_key \in DOMAIN store
               /\ req[r].resp.data = StoredPayload(store[req[r].cache_key])

\* C28: under any interleaving of concurrent requests with the same input
\* (cache read, model call and cache write being separate steps) every
\* request completes with HTTP 200 (in the theme handler when the model
\* answers JSON), the stored entry for the key is at every
\* moment absent or equal to the complete payload of one of the requests
\* answered cached:false, and a request answered from the cache returns
\* exactly the stored payload.
C28_ConcurrentIdentical ==
    /\ AllAnswered200
    /\ EntryIsOnePayload
    /\ CachedIsStored

=============================================================================
